---------------------------- MODULE Spec2Model ----------------------------
(***************************************************************************)
(* A model of weovim's grid pipeline: the line grid (grid.rs, grid/lines.rs)*)
(* that applies Neovim redraw events, the Editor that routes the events    *)
(* (editor.rs) and the triple buffer that hands rendered grids from the    *)
(* event thread to the UI thread (editor.rs, mod buffering).               *)
(*                                                                         *)
(* Conventions.  Rust vectors are TLA+ sequences, so the Rust index i is   *)
(* the TLA+ index i + 1.  A String is the sequence of its chars; its       *)
(* len() is the sum of the chars' UTF-8 lengths.  An operation that can    *)
(* panic returns a record [st, l]: st is "ok", "panic" or "ub" and l is    *)
(* the grid as the operation left it.                                      *)
(***************************************************************************)
EXTENDS Integers, Sequences, FiniteSets, TLC

(***************************************************************************)
(* Bounds of the model.                                                    *)
(***************************************************************************)
\* Largest row count and column count a grid_resize event asks for.
MaxRows == 3
MaxCols == 2
\* Largest |rows| of a grid_scroll event.
MaxDelta == 2
\* Number of redraw events the editor handles in the sequential specifications.
MaxOps == 3
\* Number of flushes in the concurrent specification.
MaxPublish == 3
\* Number of redraw events in the end-to-end specification.
MaxTrace == 4
MaxReads == 2

(***************************************************************************)
(* Machine integers.  TLC's integers are 32 bits wide, so 2^30 stands for  *)
(* the modulus 2^64 of usize and U64_MAX for u64::max_value(): the model   *)
(* only compares these values with the small indices and ids it uses.      *)
(***************************************************************************)
USIZE_MODULUS == 2^30

U64_MAX == 2147483647

\* `v as usize` of an i64 v.
AsUsize(v) == IF v < 0 THEN USIZE_MODULUS + v ELSE v

Min(a, b) == IF a < b THEN a ELSE b

\* UTF-8 length of a char (String::push, String::len).  A char is written as
\* a one-letter string, and the two-byte char e-acute as "U+00E9".
Utf8Len(ch) == IF ch = "U+00E9" THEN 2 ELSE 1

RECURSIVE StrLen(_)
StrLen(text) == IF text = <<>> THEN 0 ELSE Utf8Len(Head(text)) + StrLen(Tail(text))

\* s[from..to] of a Rust slice (0-based, `to` exclusive).
Slice(s, from, to) == SubSeq(s, from + 1, to)

\* Vec::resize_with(n, f) where f() = fill.
ResizeWith(s, n, fill) ==
    IF n <= Len(s) THEN SubSeq(s, 1, n)
    ELSE s \o [i \in 1..(n - Len(s)) |-> fill]

(***************************************************************************)
(* grid/lines.rs: cells of a line.                                         *)
(***************************************************************************)
NEOVIM_MAXCOMBINE == 6

\* LineCell::default().  chr holds the first `size` chars of the cell's array;
\* the rest of the array is always spaces and is never read.
DefaultLineCell == [chr |-> <<>>, hl_id |-> U64_MAX]

\* LineCell::new(cell): the default cell updated with the first six chars of
\* the grid cell's text and the grid cell's highlight id.
NewLineCell(gc) ==
    [chr |-> SubSeq(gc.text, 1, Min(Len(gc.text), NEOVIM_MAXCOMBINE)), hl_id |-> gc.hl_id]

\* SectionedLine::default() and SectionedLine::clear().
EmptySectioned == [text |-> <<>>, sections |-> <<>>]

\* An update that writes only the first cell of a repeated run.
RECURSIVE UpdateCellsOnce(_, _, _)
UpdateCellsOnce(line, pos, gcs) ==
    IF gcs = <<>> THEN [st |-> "ok", line |-> line]
    ELSE LET gc == Head(gcs)
         IN  IF gc.repeated > Len(line) - pos
             THEN [st |-> "panic", line |-> line]
             ELSE UpdateCellsOnce(
                    [i \in 1..Len(line) |->
                        IF i = pos + 1 /\ gc.repeated > 0 THEN NewLineCell(gc) ELSE line[i]],
                    pos + gc.repeated, Tail(gcs))

\* lines::update's loop over new_line.cells: `cells` is the rest of the line at
\* offset `pos`.  split_at_mut(repeated) panics when repeated is longer than
\* the rest.
RECURSIVE UpdateCells(_, _, _)
UpdateCells(line, pos, gcs) ==
    IF gcs = <<>> THEN [st |-> "ok", line |-> line]
    ELSE LET gc == Head(gcs)
         IN  IF gc.repeated > Len(line) - pos
             THEN [st |-> "panic", line |-> line]
             ELSE UpdateCells(
                    [i \in 1..Len(line) |->
                        IF i > pos /\ i <= pos + gc.repeated THEN NewLineCell(gc) ELSE line[i]],
                    pos + gc.repeated, Tail(gcs))

\* An update that writes the run from the first column of the line.
LineUpdateFromStart(line, gl) ==
    IF gl.col_start > Len(line) THEN [st |-> "panic", line |-> line]
    ELSE UpdateCells(line, 0, gl.cells)

\* lines::update(line, new_line): line[col_start..] panics when col_start is
\* past the end of the line.
LineUpdate(line, gl) ==
    IF gl.col_start > Len(line) THEN [st |-> "panic", line |-> line]
    ELSE UpdateCells(line, gl.col_start, gl.cells)

\* The loop of lines::render over the cells after the first: acc is
\* [text, sections, hl, old_len].
RECURSIVE RenderCells(_, _)
RenderCells(cells, acc) ==
    IF cells = <<>> THEN acc
    ELSE LET cell == Head(cells)
             push == cell.hl_id # acc.hl /\ StrLen(acc.text) # acc.old_len
             a1 == IF push
                   THEN [acc EXCEPT !.sections = Append(@, [hl |-> acc.hl,
                                                             start |-> acc.old_len,
                                                             end |-> StrLen(acc.text)]),
                                    !.hl = cell.hl_id,
                                    !.old_len = StrLen(acc.text)]
                   ELSE acc
         IN  RenderCells(Tail(cells), [a1 EXCEPT !.text = @ \o cell.chr])

\* lines::render(line, sectioned): appends to the sectioned line it is given.
RenderLine(line, sectioned) ==
    IF line = <<>> THEN sectioned
    ELSE LET fc == Head(line)
             acc == RenderCells(Tail(line),
                                [text |-> sectioned.text \o fc.chr,
                                 sections |-> sectioned.sections,
                                 hl |-> fc.hl_id, old_len |-> 0])
         IN  [text |-> acc.text, sections |-> acc.sections]

(***************************************************************************)
(* grid.rs: Lines.                                                         *)
(***************************************************************************)
\* Lines::default().
DefaultLines ==
    [cells |-> <<>>, rows |-> 0, cols |-> 0, cached_sections |-> <<>>, dirty_lines |-> {}]

\* Whether cells[row*cols .. row*cols + cols] is in range (line_at_mut, render).
\* With cols > 0 a row past the cell count is never in range: row * cols
\* overflows (a panic with overflow checks) or wraps to a start past the end.
LineInRange(l, row) ==
    \/ l.cols = 0
    \/ row <= Len(l.cells) /\ row * l.cols + l.cols <= Len(l.cells)

\* The cells of a row that is in range.
LineAt(l, row) == Slice(l.cells, row * l.cols, row * l.cols + l.cols)

\* Lines::dirty_line(i): a newly inserted index clears its cache entry, which
\* panics when the cache has no such entry.
DirtyLine(l, i) ==
    IF i \in l.dirty_lines THEN [st |-> "ok", l |-> l]
    ELSE LET l1 == [l EXCEPT !.dirty_lines = @ \cup {i}]
         IN  IF i < Len(l.cached_sections)
             THEN [st |-> "ok", l |-> [l1 EXCEPT !.cached_sections[i + 1] = EmptySectioned]]
             ELSE [st |-> "panic", l |-> l1]

\* Lines::dirty_all(): for i in 0..rows, insert i and clear its cache entry.
DirtyAll(l) ==
    LET n == Min(l.rows, Len(l.cached_sections))
        cleared == [i \in 1..Len(l.cached_sections) |->
                       IF i <= n THEN EmptySectioned ELSE l.cached_sections[i]]
    IN  IF l.rows <= Len(l.cached_sections)
        THEN [st |-> "ok",
              l |-> [l EXCEPT !.dirty_lines = @ \cup 0..(l.rows - 1),
                              !.cached_sections = cleared]]
        ELSE [st |-> "panic",
              l |-> [l EXCEPT !.dirty_lines = @ \cup 0..n,
                              !.cached_sections = cleared]]

\* A resize that sets rows and cols and leaves the cell array as it is.
LinesResizeKeepCells(l, rows, columns) ==
    LET d == DirtyAll(l)
    IN  IF d.st # "ok" THEN d
        ELSE [st |-> "ok",
              l |-> [d.l EXCEPT !.cached_sections = ResizeWith(@, rows, EmptySectioned),
                                !.rows = rows,
                                !.cols = columns]]

\* Lines::resize(rows, columns).
LinesResize(l, rows, columns) ==
    LET d == DirtyAll(l)
    IN  IF d.st # "ok" THEN d
        ELSE [st |-> "ok",
              l |-> [d.l EXCEPT !.cached_sections = ResizeWith(@, rows, EmptySectioned),
                                !.rows = rows,
                                !.cols = columns,
                                !.cells = ResizeWith(@, rows * columns, DefaultLineCell)]]

\* Lines::clear().
LinesClear(l) ==
    LET d == DirtyAll(l)
    IN  IF d.st # "ok" THEN d
        ELSE [st |-> "ok",
              l |-> [d.l EXCEPT !.cells = [i \in 1..Len(@) |-> DefaultLineCell]]]

\* Lines::update_line(grid_line).
LinesUpdateLine(l, gl) ==
    LET d == DirtyLine(l, gl.row)
    IN  IF d.st # "ok" THEN d
        ELSE IF ~LineInRange(d.l, gl.row) THEN [st |-> "panic", l |-> d.l]
        ELSE LET start == gl.row * d.l.cols
                 u == LineUpdate(LineAt(d.l, gl.row), gl)
             IN  [st |-> u.st,
                  l |-> [d.l EXCEPT !.cells =
                            [i \in 1..Len(@) |->
                                IF i > start /\ i <= start + d.l.cols
                                THEN u.line[i - start] ELSE @[i]]]]

\* std::ptr::swap_nonoverlapping on cells[a .. a+n] and cells[b .. b+n].
SwapCells(cells, a, b, n) ==
    [k \in 1..Len(cells) |->
        IF k > a /\ k <= a + n THEN cells[k - a + b]
        ELSE IF k > b /\ k <= b + n THEN cells[k - b + a]
        ELSE cells[k]]

\* The body of the loop of Lines::scroll for the row i and what follows it.
\* asc, i, stop: the Stride (Stride::next yields i while i < stop, resp.
\* i > stop).  n is line_range.  A swap that leaves its row is undefined
\* behaviour: with flat = TRUE it is the swap of the flat cell array when both
\* ranges lie in the array and do not overlap; otherwise the run ends "ub".
RECURSIVE ScrollLoop(_, _, _, _, _, _, _, _)
ScrollLoop(l, asc, i, stop, rows, left, n, flat) ==
    IF ~(IF asc THEN i < stop ELSE i > stop) THEN [st |-> "ok", l |-> l]
    ELSE LET d == DirtyLine(l, i)
             src_idx == AsUsize(i + rows)
             dst == (IF d.l.cols = 0 THEN 0 ELSE i * d.l.cols) + left
             src == (IF d.l.cols = 0 THEN 0 ELSE src_idx * d.l.cols) + left
             next == IF asc THEN i + 1 ELSE i - 1
         IN  IF d.st # "ok" THEN d
             ELSE IF ~LineInRange(d.l, i) \/ ~LineInRange(d.l, src_idx)
                  THEN [st |-> "panic", l |-> d.l]
             ELSE IF n = 0 THEN ScrollLoop(d.l, asc, next, stop, rows, left, n, flat)
             ELSE IF left + n <= d.l.cols
                  THEN ScrollLoop([d.l EXCEPT !.cells = SwapCells(@, dst, src, n)],
                                  asc, next, stop, rows, left, n, flat)
             ELSE IF /\ flat
                     /\ dst + n <= Len(d.l.cells) /\ src + n <= Len(d.l.cells)
                     /\ (dst + n <= src \/ src + n <= dst)
                  THEN ScrollLoop([d.l EXCEPT !.cells = SwapCells(@, dst, src, n)],
                                  asc, next, stop, rows, left, n, flat)
             ELSE [st |-> "ub", l |-> d.l]

\* Lines::scroll(reg, rows), reg = [top, bottom, left, right].  checks: the
\* build has overflow checks, so reg[3] - left panics instead of wrapping.
LinesScroll(l, reg, rows, checks, flat) ==
    IF rows = 0 THEN [st |-> "ok", l |-> l]
    ELSE LET asc == rows < 0
             start == IF asc THEN reg[1] ELSE reg[2]
             stop == IF asc THEN AsUsize(reg[2] - rows + 1) ELSE AsUsize(reg[1] - rows - 1)
             left == reg[3]
             line_range == AsUsize(reg[4] - left)
         IN  IF reg[4] < left /\ checks THEN [st |-> "panic", l |-> l]
             ELSE IF l.cols < left THEN [st |-> "panic", l |-> l]
             ELSE ScrollLoop(l, asc, start, stop, rows, left, line_range, flat)

\* The dirty rows Lines::render can render: the row's cells and its cache entry exist.
Renderable(l) ==
    {row \in l.dirty_lines : LineInRange(l, row) /\ row < Len(l.cached_sections)}

\* A render that does not clear the dirty set.
LinesRenderKeepDirty(l, done) ==
    IF Renderable(l) = l.dirty_lines
    THEN [st |-> "ok",
          l |-> [l EXCEPT !.cached_sections =
                            [i \in 1..Len(@) |->
                                IF (i - 1) \in l.dirty_lines
                                THEN RenderLine(LineAt(l, i - 1), @[i]) ELSE @[i]]]]
    ELSE [st |-> "panic", l |-> l]

\* Lines::render().  The dirty set is a hash set, iterated in no particular
\* order: when a dirty row is out of range the loop panics after it rendered
\* the rows of `done`, some of the rows it can render.
LinesRender(l, done) ==
    IF Renderable(l) = l.dirty_lines
    THEN [st |-> "ok",
          l |-> [l EXCEPT !.cached_sections =
                            [i \in 1..Len(@) |->
                                IF (i - 1) \in l.dirty_lines
                                THEN RenderLine(LineAt(l, i - 1), @[i]) ELSE @[i]],
                          !.dirty_lines = {}]]
    ELSE [st |-> "panic",
          l |-> [l EXCEPT !.cached_sections =
                            [i \in 1..Len(@) |->
                                IF (i - 1) \in done
                                THEN RenderLine(LineAt(l, i - 1), @[i]) ELSE @[i]]]]

\* The sets `done` can be drawn from.
RenderOrders(l) ==
    IF Renderable(l) = l.dirty_lines THEN {{}} ELSE SUBSET Renderable(l)

(***************************************************************************)
(* editor.rs: the state of the program.                                    *)
(***************************************************************************)
VARIABLES
    buffers,     \* TripleBufferSharedState.buffers: slot 0..2 -> Lines
    back_info,   \* TripleBufferSharedState.back_info: AtomicU8
    input_idx,   \* TripleBufferWriter.input_idx
    output_idx,  \* TripleBufferReader.output_idx
    chan,        \* the mpsc channel from Editor.tx to UiStateFromEditor.recv
    status,      \* "ok", or how the event thread ended: "panic", "ub"
    wpc,         \* where the event thread is inside Editor::flush / send_event
    wloc,        \* its locals: old_index, former_back_info, event
    rpc,         \* where the UI thread is inside TripleBufferReader::buffer
    rx,          \* EventReceiver::start_loop: where it is, the events it delivered
    hl_groups,   \* HighlightGroups: groups, default; st "panic" once update panicked
    modes,       \* Editor.modes
    curr_mode,   \* Editor.curr_mode
    cursor_style_enabled, \* UiEditorSharedState.cursor_style_enabled
    hist         \* history variables of the claims (not program state)

vars ==
    <<buffers, back_info, input_idx, output_idx, chan, status, wpc, wloc, rpc, rx, hl_groups,
      modes, curr_mode, cursor_style_enabled, hist>>

prog ==
    <<buffers, back_info, input_idx, output_idx, chan, status, wpc, wloc, rpc, rx, hl_groups,
      modes, curr_mode, cursor_style_enabled>>

MPSC_CHANNEL_BUFFER_SIZE == 128

BACK_INDEX_MASK == 3

BACK_DIRTY_BIT == 4

\* former_back_info & BACK_INDEX_MASK and former_back_info & BACK_DIRTY_BIT != 0.
BackIndex(info) == info % (BACK_INDEX_MASK + 1)

BackDirty(info) == (info \div BACK_DIRTY_BIT) % 2 = 1

\* Editor::new() with new_triple_buffer(): writer on slot 1, reader on slot 2,
\* back_info 0, three default grids, an empty channel.
\* Option<Color>: None.
NoColor == "none"

\* RgbAttr: the colors, blend, and of the flags REVERSE.
RgbAttr(foreground, background, special, reverse) ==
    [foreground |-> foreground, background |-> background, special |-> special,
     blend |-> 0, reverse |-> reverse]

\* RgbAttr::default().
DefaultRgbAttr == RgbAttr(NoColor, NoColor, NoColor, FALSE)

InitProg ==
    /\ buffers = [i \in 0..2 |-> DefaultLines]
    /\ back_info = 0
    /\ input_idx = 1
    /\ output_idx = 2
    /\ chan = <<>>
    /\ status = "ok"
    /\ wpc = "idle"
    /\ wloc = [old_index |-> 0, former_back_info |-> 0, event |-> "none"]
    /\ rpc = "idle"
    /\ rx = [st |-> "wait", cause |-> "none", eof |-> FALSE, delivered |-> <<>>]
    /\ hl_groups = [st |-> "ok", groups |-> <<>>, default |-> DefaultRgbAttr]
    /\ modes = <<>>
    /\ curr_mode = 0
    /\ cursor_style_enabled = FALSE

\* The event thread is between two redraw events.
WriterIdle == status = "ok" /\ wpc = "idle"

\* TripleBufferWriter::buffer() after a Lines operation on it returned res.
WriteInput(res) ==
    /\ buffers' = [buffers EXCEPT ![input_idx] = res.l]
    /\ status' = res.st

\* Editor::resize_grid(width, height).
resize_grid(width, height) ==
    /\ WriterIdle
    /\ WriteInput(LinesResize(buffers[input_idx], height, width))
    /\ UNCHANGED <<modes, curr_mode, cursor_style_enabled, hl_groups, rx, back_info, input_idx,
                   output_idx, chan, wpc, wloc, rpc>>

\* Editor::clear_grid().
clear_grid ==
    /\ WriterIdle
    /\ WriteInput(LinesClear(buffers[input_idx]))
    /\ UNCHANGED <<modes, curr_mode, cursor_style_enabled, hl_groups, rx, back_info, input_idx,
                   output_idx, chan, wpc, wloc, rpc>>

\* Editor::redraw_grid_line(grid_line).
redraw_grid_line(gl) ==
    /\ WriterIdle
    /\ WriteInput(LinesUpdateLine(buffers[input_idx], gl))
    /\ UNCHANGED <<modes, curr_mode, cursor_style_enabled, hl_groups, rx, back_info, input_idx,
                   output_idx, chan, wpc, wloc, rpc>>

\* Editor::scroll_grid(scroll): Lines::scroll on [top, bottom, left, right] and
\* scroll.rows.  checks and flat: see LinesScroll.
scroll_grid(sc, checks, flat) ==
    /\ WriterIdle
    /\ WriteInput(LinesScroll(buffers[input_idx],
                              <<sc.top, sc.bottom, sc.left, sc.right>>, sc.rows,
                              checks, flat))
    /\ UNCHANGED <<modes, curr_mode, cursor_style_enabled, hl_groups, rx, back_info, input_idx,
                   output_idx, chan, wpc, wloc, rpc>>

\* Editor::define_hl_attr(hl_attr): send_event(DefineHlAttr(hl_attr)).
define_hl_attr(id) ==
    /\ WriterIdle
    /\ wpc' = "send"
    /\ wloc' = [wloc EXCEPT !.event = <<"DefineHlAttr", id>>]
    /\ UNCHANGED <<modes, curr_mode, cursor_style_enabled, hl_groups, rx, buffers, back_info,
                   input_idx, output_idx, chan, status, rpc>>

\* Editor::flush, first statement: self.lines.buffer().render().
FlushRender(done) ==
    /\ WriterIdle
    /\ LET res == LinesRender(buffers[input_idx], done)
       IN  WriteInput(res) /\ wpc' = IF res.st = "ok" THEN "swap" ELSE wpc
    /\ UNCHANGED <<modes, curr_mode, cursor_style_enabled, hl_groups, rx, back_info, input_idx,
                   output_idx, chan, wloc, rpc>>

\* A publish that keeps the slot it has just published as its input.
PublishInputKeep(former_back_info) == input_idx

\* The slot publish() makes the writer's input: the former back slot.
PublishInput(former_back_info) == BackIndex(former_back_info)

\* TripleBufferWriter::publish, the swap: back_info.swap(input_idx | DIRTY).
PublishSwap ==
    /\ status = "ok" /\ wpc = "swap"
    /\ back_info' = input_idx + BACK_DIRTY_BIT
    /\ input_idx' = PublishInput(back_info)
    /\ wloc' = [wloc EXCEPT !.old_index = input_idx, !.former_back_info = back_info]
    /\ wpc' = "clone_cells"
    /\ UNCHANGED <<modes, curr_mode, cursor_style_enabled, hl_groups, rx, buffers, output_idx,
                   chan, status, rpc>>

\* clone_from in the other direction: complete.clone_from(writing).
ClonePairReversed == [complete |-> input_idx, writing |-> wloc.old_index]

\* writing.clone_from(complete) in publish: complete is the slot just
\* published, writing the new input slot.
ClonePair == [complete |-> wloc.old_index, writing |-> input_idx]

CloneSource == ClonePair.complete

CloneTarget == ClonePair.writing

\* Lines::clone_from, one field at a time.
CloneCells ==
    /\ status = "ok" /\ wpc = "clone_cells"
    /\ buffers' = [buffers EXCEPT ![CloneTarget].cells = buffers[CloneSource].cells]
    /\ wpc' = "clone_rows"
    /\ UNCHANGED <<modes, curr_mode, cursor_style_enabled, hl_groups, rx, back_info, input_idx,
                   output_idx, chan, status, wloc, rpc>>

CloneRows ==
    /\ status = "ok" /\ wpc = "clone_rows"
    /\ buffers' = [buffers EXCEPT ![CloneTarget].rows = buffers[CloneSource].rows]
    /\ wpc' = "clone_cols"
    /\ UNCHANGED <<modes, curr_mode, cursor_style_enabled, hl_groups, rx, back_info, input_idx,
                   output_idx, chan, status, wloc, rpc>>

CloneCols ==
    /\ status = "ok" /\ wpc = "clone_cols"
    /\ buffers' = [buffers EXCEPT ![CloneTarget].cols = buffers[CloneSource].cols]
    /\ wpc' = "clone_cached"
    /\ UNCHANGED <<modes, curr_mode, cursor_style_enabled, hl_groups, rx, back_info, input_idx,
                   output_idx, chan, status, wloc, rpc>>

\* A clone_from that leaves the cached sections of the target as they are.
CloneCachedSkip ==
    /\ status = "ok" /\ wpc = "clone_cached"
    /\ wpc' = "clone_dirty"
    /\ UNCHANGED <<modes, curr_mode, cursor_style_enabled, hl_groups, rx, buffers, back_info,
                   input_idx, output_idx, chan, status, wloc, rpc>>

CloneCached ==
    /\ status = "ok" /\ wpc = "clone_cached"
    /\ buffers' = [buffers EXCEPT ![CloneTarget].cached_sections =
                                      buffers[CloneSource].cached_sections]
    /\ wpc' = "clone_dirty"
    /\ UNCHANGED <<modes, curr_mode, cursor_style_enabled, hl_groups, rx, back_info, input_idx,
                   output_idx, chan, status, wloc, rpc>>

CloneDirty ==
    /\ status = "ok" /\ wpc = "clone_dirty"
    /\ buffers' = [buffers EXCEPT ![CloneTarget].dirty_lines = buffers[CloneSource].dirty_lines]
    /\ wpc' = "ret"
    /\ UNCHANGED <<modes, curr_mode, cursor_style_enabled, hl_groups, rx, back_info, input_idx,
                   output_idx, chan, status, wloc, rpc>>

\* A publish that returns whether the former back slot was not slot 0.
PublishResultIndex(former_back_info) == BackIndex(former_back_info) # 0

\* What publish() returns: former_back_info & BACK_DIRTY_BIT != 0.
PublishResult(former_back_info) == BackDirty(former_back_info)

\* A flush that sends Redraw whatever publish returned.
PublishReturnAlwaysSend ==
    /\ status = "ok" /\ wpc = "ret"
    /\ wpc' = "send" /\ wloc' = [wloc EXCEPT !.event = <<"Redraw">>]
    /\ UNCHANGED <<modes, curr_mode, cursor_style_enabled, hl_groups, rx, buffers, back_info,
                   input_idx, output_idx, chan, status, rpc>>

\* A flush that sends Redraw when publish returned true.
PublishReturnInverted ==
    /\ status = "ok" /\ wpc = "ret"
    /\ IF ~PublishResult(wloc.former_back_info)
       THEN wpc' = "idle" /\ UNCHANGED wloc
       ELSE wpc' = "send" /\ wloc' = [wloc EXCEPT !.event = <<"Redraw">>]
    /\ UNCHANGED <<modes, curr_mode, cursor_style_enabled, hl_groups, rx, buffers, back_info,
                   input_idx, output_idx, chan, status, rpc>>

\* publish returns and Editor::flush sends Redraw unless it returned true.
PublishReturn ==
    /\ status = "ok" /\ wpc = "ret"
    /\ IF PublishResult(wloc.former_back_info)
       THEN wpc' = "idle" /\ UNCHANGED wloc
       ELSE wpc' = "send" /\ wloc' = [wloc EXCEPT !.event = <<"Redraw">>]
    /\ UNCHANGED <<modes, curr_mode, cursor_style_enabled, hl_groups, rx, buffers, back_info,
                   input_idx, output_idx, chan, status, rpc>>

\* A send_event that gives up on a full channel: the event is dropped.
SendEventOrDrop ==
    /\ status = "ok" /\ wpc = "send"
    /\ IF Len(chan) < MPSC_CHANNEL_BUFFER_SIZE
       THEN chan' = Append(chan, wloc.event) /\ wpc' = "idle"
       ELSE chan' = chan /\ wpc' = "idle"
    /\ UNCHANGED <<modes, curr_mode, cursor_style_enabled, hl_groups, rx, buffers, back_info,
                   input_idx, output_idx, status, wloc, rpc>>

\* Editor::send_event: try_send in a spin loop; a full channel leaves the
\* thread in the loop.
SendEvent ==
    /\ status = "ok" /\ wpc = "send"
    /\ IF Len(chan) < MPSC_CHANNEL_BUFFER_SIZE
       THEN chan' = Append(chan, wloc.event) /\ wpc' = "idle"
       ELSE UNCHANGED <<chan, wpc>>
    /\ UNCHANGED <<modes, curr_mode, cursor_style_enabled, hl_groups, rx, buffers, back_info,
                   input_idx, output_idx, status, wloc, rpc>>

\* main.rs: the task that receives the UI events.
Recv ==
    /\ status # "ub"
    /\ chan # <<>>
    /\ chan' = Tail(chan)
    /\ UNCHANGED <<modes, curr_mode, cursor_style_enabled, hl_groups, rx, buffers, back_info,
                   input_idx, output_idx, status, wpc, wloc, rpc>>

\* TripleBufferSharedState::updated(): the load of back_info.
Updated == BackDirty(back_info)

\* An update() that swaps whatever the dirty bit says.
ReaderLoadAlways ==
    /\ status # "ub" /\ rpc = "idle"
    /\ rpc' = "swap"
    /\ UNCHANGED <<modes, curr_mode, cursor_style_enabled, hl_groups, rx, buffers, back_info,
                   input_idx, output_idx, chan, status, wpc, wloc>>

\* TripleBufferReader::buffer() starts: update() loads back_info.  Without an
\* update the reader keeps its slot and buffer() returns a reference to it.
ReaderLoad ==
    /\ status # "ub" /\ rpc = "idle"
    /\ rpc' = IF Updated THEN "swap" ELSE "reading"
    /\ UNCHANGED <<modes, curr_mode, cursor_style_enabled, hl_groups, rx, buffers, back_info,
                   input_idx, output_idx, chan, status, wpc, wloc>>

\* A swap that waits until the writer has left clone_from.
ReaderSwapLocked ==
    /\ status # "ub" /\ rpc = "swap"
    /\ wpc \notin {"clone_cells", "clone_rows", "clone_cols", "clone_cached", "clone_dirty"}
    /\ back_info' = output_idx
    /\ output_idx' = BackIndex(back_info)
    /\ rpc' = "reading"
    /\ UNCHANGED <<modes, curr_mode, cursor_style_enabled, hl_groups, rx, buffers, input_idx,
                   chan, status, wpc, wloc>>

\* update(), the swap: back_info.swap(output_idx); buffer() then returns a
\* reference to the new output slot.
ReaderSwap ==
    /\ status # "ub" /\ rpc = "swap"
    /\ back_info' = output_idx
    /\ output_idx' = BackIndex(back_info)
    /\ rpc' = "reading"
    /\ UNCHANGED <<modes, curr_mode, cursor_style_enabled, hl_groups, rx, buffers, input_idx,
                   chan, status, wpc, wloc>>

\* The UI thread drops the reference buffer() returned.
ReaderRelease ==
    /\ status # "ub" /\ rpc = "reading"
    /\ rpc' = "idle"
    /\ UNCHANGED <<modes, curr_mode, cursor_style_enabled, hl_groups, rx, buffers, back_info,
                   input_idx, output_idx, chan, status, wpc, wloc>>

(***************************************************************************)
(* History variables.  hist records what the claims speak about and the    *)
(* program does not store: how many events were handled (nops, trace), the *)
(* last scroll with the grid before it (last), the publications (npub,     *)
(* flushed: the grids as they were at each flush), whether the reader      *)
(* swapped since the last publication (rswap), the value the current       *)
(* publish is to return by that history (expect), the dirty bit its swap   *)
(* found (wasdirty), the slot it published (published), and the steps      *)
(* taken inside the current publish() and buffer() (wsteps, rsteps).       *)
(***************************************************************************)
NoHistory ==
           [nops |-> 0, trace |-> <<>>, last |-> [op |-> "none"],
            npub |-> 0, flushed |-> {DefaultLines}, rswap |-> FALSE, expect |-> FALSE,
            wasdirty |-> FALSE, published |-> 0,
            wsteps |-> 0, rsteps |-> 0,
            reads |-> 0, nextid |-> 1, stream |-> <<>>, classes |-> {},
            defined |-> <<>>, resolved |-> [id |-> 0, st |-> "none", attr |-> DefaultRgbAttr],
            nsent |-> 0, received |-> <<>>,
            pubno |-> [i \in 0..2 |-> 0], loadnpub |-> 0, nfalse |-> 0, nredraw |-> 0,
            owed |-> 0, failed |-> {}, unread |-> <<>>]

InitHist == hist = NoHistory

\* An event handler other than scroll ran.
NoteOp == hist' = [hist EXCEPT !.nops = @ + 1, !.last = [op |-> "other"]]

\* resize_grid(width, height) ran.
NoteResize(width, height) ==
    hist' = [hist EXCEPT !.nops = @ + 1,
                         !.last = [op |-> "resize", rows |-> height, cols |-> width]]

\* redraw_grid_line(gl) ran.
NoteLine(gl) == hist' = [hist EXCEPT !.nops = @ + 1, !.last = [op |-> "line", gl |-> gl]]

\* scroll_grid(sc) ran on the grid `pre`.
NoteScroll(sc) ==
    hist' = [hist EXCEPT !.nops = @ + 1,
                         !.last = [op |-> "scroll", sc |-> sc, pre |-> buffers[input_idx]]]

\* flush started: render ran and publish() is called.
NoteFlush == hist' = [hist EXCEPT !.nops = @ + 1, !.last = [op |-> "render"], !.wsteps = 0]

\* The swap of publish().
NotePublish ==
    hist' = [hist EXCEPT !.npub = @ + 1,
                         !.flushed = @ \cup {buffers[input_idx]},
                         !.expect = (hist.npub > 0 /\ ~hist.rswap),
                         !.wasdirty = BackDirty(back_info),
                         !.published = input_idx,
                         !.pubno = [@ EXCEPT ![input_idx] = hist.npub + 1],
                         !.nfalse = IF BackDirty(back_info) THEN @ ELSE @ + 1,
                         !.rswap = FALSE,
                         !.wsteps = @ + 1]

\* A turn of send_event's loop: a Redraw event is enqueued when the channel
\* has room.
NoteTrySend ==
    hist' = [hist EXCEPT !.nredraw =
                IF wloc.event = <<"Redraw">> /\ Len(chan) < MPSC_CHANNEL_BUFFER_SIZE
                THEN @ + 1 ELSE @]

\* Another step of publish().
NoteWriterStep == hist' = [hist EXCEPT !.wsteps = @ + 1]

\* The steps of buffer().
NoteReaderLoad == hist' = [hist EXCEPT !.rsteps = 1, !.loadnpub = hist.npub]

NoteReaderSwap == hist' = [hist EXCEPT !.rswap = TRUE, !.rsteps = @ + 1]

(***************************************************************************)
(* Inputs.                                                                 *)
(***************************************************************************)
GridCell(text, hl_id, repeated) == [text |-> text, hl_id |-> hl_id, repeated |-> repeated]

GridLine(row, col_start, cells) == [row |-> row, col_start |-> col_start, cells |-> cells]

\* The cells of the grid_line events: a plain cell, a two-byte char with
\* another highlight, the empty right half of a double-width char, a repeated
\* cell.
GridCells ==
    { GridCell(<<"a">>, 1, 1), GridCell(<<"U+00E9">>, 2, 1),
      GridCell(<<>>, 1, 1), GridCell(<<"b">>, 1, 2) }

CellLists == {<<c>> : c \in GridCells} \cup {<<c, d>> : c \in GridCells, d \in GridCells}

GridLines ==
    {GridLine(row, col, cells) : row \in 0..(MaxRows - 1), col \in 0..MaxCols, cells \in CellLists}

Scrolls ==
    [top : 0..(MaxRows - 1), bottom : 0..(MaxRows - 1),
     left : 0..MaxCols, right : 0..MaxCols, rows : (-MaxDelta)..MaxDelta]

\* The builds that differ on a scroll: overflow checks matter when right < left,
\* the layout of the swap when the region is wider than the line.
ChecksOf(sc) == IF sc.right < sc.left THEN BOOLEAN ELSE {TRUE}

FlatOf(sc) == IF sc.right > buffers[input_idx].cols \/ sc.right < sc.left THEN BOOLEAN ELSE {TRUE}

(***************************************************************************)
(* The steps of publish() and of flush after it, in every specification.   *)
(***************************************************************************)
PublishSteps ==
    \/ PublishSwap /\ NotePublish
    \/ CloneCells /\ NoteWriterStep
    \/ CloneRows /\ NoteWriterStep
    \/ CloneCols /\ NoteWriterStep
    \/ CloneCached /\ NoteWriterStep
    \/ CloneDirty /\ NoteWriterStep
    \/ PublishReturn /\ NoteWriterStep
    \/ SendEvent /\ NoteTrySend

(***************************************************************************)
(* SpecGrid: the event thread alone, handling at most MaxOps redraw events *)
(* with every input of the bounds.                                         *)
(***************************************************************************)
InitGrid == InitProg /\ InitHist

\* The event thread may handle another event.
MoreOps == hist.nops < MaxOps

NextGrid ==
    \/ MoreOps /\ \E w \in 0..MaxCols, h \in 0..MaxRows : resize_grid(w, h) /\ NoteResize(w, h)
    \/ MoreOps /\ clear_grid /\ NoteOp
    \/ MoreOps /\ \E gl \in GridLines : redraw_grid_line(gl) /\ NoteLine(gl)
    \/ MoreOps /\ \E sc \in Scrolls : \E checks \in ChecksOf(sc), flat \in FlatOf(sc) :
                     scroll_grid(sc, checks, flat) /\ NoteScroll(sc)
    \/ MoreOps /\ \E done \in RenderOrders(buffers[input_idx]) : FlushRender(done) /\ NoteFlush
    \/ PublishSteps

SpecGrid == InitGrid /\ [][NextGrid]_vars

(***************************************************************************)
(* Spec: the event thread and the UI thread, interleaved step by step, on  *)
(* a grid of one row and two columns.                                      *)
(***************************************************************************)
ConcLines ==
    {GridLine(0, col, <<GridCell(<<ch>>, 1, 1)>>) : col \in 0..1, ch \in {"a"}}

Init == InitProg /\ InitHist

Next ==
    \/ resize_grid(2, 1) /\ UNCHANGED hist
    \/ \E gl \in ConcLines : redraw_grid_line(gl) /\ UNCHANGED hist
    \/ /\ hist.npub < MaxPublish
       /\ \E done \in RenderOrders(buffers[input_idx]) :
             FlushRender(done) /\ hist' = [hist EXCEPT !.wsteps = 0]
    \/ PublishSteps
    \/ Recv /\ UNCHANGED hist
    \/ ReaderLoad /\ NoteReaderLoad
    \/ ReaderSwap /\ NoteReaderSwap
    \/ ReaderRelease /\ UNCHANGED hist

Spec == Init /\ [][Next]_vars

(***************************************************************************)
(* neovim/events.rs: decoding the cells of a grid_line event.              *)
(***************************************************************************)
\* MessagePack values of a cell tuple after its text: an integer, nil.
MpInt(n) == [kind |-> "int", v |-> n]

MpNil == [kind |-> "nil", v |-> 0]

\* A loop over the cell tuples that forgets the id of the tuple before: a
\* tuple without id gets the id the line started with.
RECURSIVE DecodeCellsNoCarry(_, _)
DecodeCellsNoCarry(tuples, last_hl_id) ==
    IF tuples = <<>> THEN [st |-> "ok", cells |-> <<>>]
    ELSE LET t == Head(tuples)
             hl_id == IF Len(t) > 1 THEN t[2].v ELSE last_hl_id
             repeated == IF Len(t) > 2 THEN t[3].v ELSE 1
         IN  IF Len(t) > 1 /\ t[2].kind # "int" THEN [st |-> "err", cells |-> <<>>]
             ELSE IF Len(t) > 2 /\ t[3].kind # "int" THEN [st |-> "err", cells |-> <<>>]
             ELSE LET rest == DecodeCellsNoCarry(Tail(tuples), last_hl_id)
                  IN  IF rest.st # "ok" THEN rest
                      ELSE [st |-> "ok",
                            cells |-> <<GridCell(t[1], hl_id, repeated)>> \o rest.cells]

\* The loop of decode_grid_line over the cell tuples <<text>>, <<text, hl_id>>
\* and <<text, hl_id, repeat>>: read_u64 fails on a value that is no integer.
RECURSIVE DecodeCells(_, _)
DecodeCells(tuples, last_hl_id) ==
    IF tuples = <<>> THEN [st |-> "ok", cells |-> <<>>]
    ELSE LET t == Head(tuples)
             hl_id == IF Len(t) > 1 THEN t[2].v ELSE last_hl_id
             repeated == IF Len(t) > 2 THEN t[3].v ELSE 1
         IN  IF Len(t) > 1 /\ t[2].kind # "int" THEN [st |-> "err", cells |-> <<>>]
             ELSE IF Len(t) > 2 /\ t[3].kind # "int" THEN [st |-> "err", cells |-> <<>>]
             ELSE LET rest == DecodeCells(Tail(tuples), hl_id)
                  IN  IF rest.st # "ok" THEN rest
                      ELSE [st |-> "ok",
                            cells |-> <<GridCell(t[1], hl_id, repeated)>> \o rest.cells]

\* RedrawEvent::decode_grid_line on the parameters row, col_start, cells.
decode_grid_line(row, col_start, tuples) ==
    LET d == DecodeCells(tuples, 0)
    IN  [st |-> d.st, line |-> GridLine(row, col_start, d.cells)]

(***************************************************************************)
(* SpecE2E: the editor handles at most MaxTrace redraw events on a grid of *)
(* one row; the grid_line events are decoded from their cell tuples.  The  *)
(* UI thread acquires the published grid.  hist.trace is the sequence of   *)
(* the decoded events.                                                     *)
(***************************************************************************)
\* The widths of the grid_resize events.
E2EWidths == {4, 10}

\* The cell tuples of the grid_line events, all for row 0 from column 0.
E2ETuples ==
    { << <<(<<"H">>), MpInt(1), MpInt(1)>>, <<(<<"i">>), MpInt(1), MpInt(4)>> >>,
      << <<(<<"H">>), MpInt(1), MpInt(1)>>, <<(<<"i">>)>> >>,
      << <<(<<"H">>), MpInt(1)>>, <<(<<"i">>), MpInt(2), MpInt(4)>> >>,
      << <<(<<"H">>), MpInt(1), MpInt(1)>>, <<(<<"i">>), MpNil, MpInt(4)>> >> }

\* The event e was decoded and handled.
NoteEvent(e) ==
    hist' = [hist EXCEPT !.nops = @ + 1, !.trace = Append(@, e),
                         !.last = [op |-> "other"], !.wsteps = 0]

\* The editor may handle another event.
MoreEvents == Len(hist.trace) < MaxTrace

\* RedrawEvent::decode returned an error: no event of the message is handled.
DecodeError ==
    /\ WriterIdle
    /\ UNCHANGED prog

InitE2E == InitProg /\ InitHist

NextE2E ==
    \/ MoreEvents /\ \E w \in E2EWidths :
                        resize_grid(w, 1) /\ NoteEvent(<<"grid_resize", w, 1>>)
    \/ MoreEvents /\ define_hl_attr(1) /\ NoteEvent(<<"hl_attr_define", 1>>)
    \/ MoreEvents /\ \E tuples \in E2ETuples :
                        LET d == decode_grid_line(0, 0, tuples)
                        IN  /\ d.st = "ok"
                            /\ redraw_grid_line(d.line)
                            /\ NoteEvent(<<"grid_line", d.line>>)
    \/ MoreEvents /\ \E tuples \in E2ETuples :
                        /\ decode_grid_line(0, 0, tuples).st = "err"
                        /\ DecodeError
                        /\ NoteEvent(<<"decode_error">>)
    \/ MoreEvents /\ \E done \in RenderOrders(buffers[input_idx]) :
                        FlushRender(done) /\ NoteEvent(<<"flush">>)
    \/ PublishSteps
    \/ Recv /\ UNCHANGED hist
    \/ ReaderLoad /\ NoteReaderLoad
    \/ ReaderSwap /\ NoteReaderSwap
    \/ ReaderRelease /\ UNCHANGED hist

SpecE2E == InitE2E /\ [][NextE2E]_vars

(***************************************************************************)
(* neovim/msg.rs: reading MessagePack values.  The bytes of a read are the *)
(* sequence of their values' markers ("tokens"): an array header with its  *)
(* length, an integer, a string, an ext header, a bool, and "strcut": the   *)
(* header of a string that declares more bytes than the read still holds.  *)
(* A reader returns [st, n, s, rest]: st is "ok", "err" (an io::Error) or   *)
(* "panic".                                                                *)
(***************************************************************************)
TArr(n) == [t |-> "arr", n |-> n, s |-> ""]

TInt(n) == [t |-> "int", n |-> n, s |-> ""]

TStr(s) == [t |-> "str", n |-> 0, s |-> s]

TStrCut == [t |-> "strcut", n |-> 0, s |-> ""]

TExt == [t |-> "ext", n |-> 0, s |-> ""]

TBool == [t |-> "bool", n |-> 0, s |-> ""]

\* A reader of one value of the kind `kind`: a type mismatch and the end of
\* the input are errors.
ReadValue(raw, kind) ==
    IF raw # <<>> /\ Head(raw).t = kind
    THEN [st |-> "ok", n |-> Head(raw).n, s |-> Head(raw).s, rest |-> Tail(raw)]
    ELSE [st |-> "err", n |-> 0, s |-> "", rest |-> raw]

read_array_len(raw) == ReadValue(raw, "arr")

read_u64(raw) == ReadValue(raw, "int")

read_bool(raw) == ReadValue(raw, "bool")

read_ext_meta(raw) == ReadValue(raw, "ext")

\* read_string: &raw[..str_len] panics when str_len is past the end of raw.
read_string(raw) ==
    IF raw # <<>> /\ Head(raw).t = "strcut"
    THEN [st |-> "panic", n |-> 0, s |-> "", rest |-> raw]
    ELSE ReadValue(raw, "str")

ensure_parameters_count(raw, count) ==
    LET r == read_array_len(raw)
    IN  IF r.st = "ok" /\ r.n # count THEN [r EXCEPT !.st = "err"] ELSE r

\* k calls of read_u64 in a row: [st, vals, rest].
RECURSIVE ReadInts(_, _)
ReadInts(raw, k) ==
    IF k = 0 THEN [st |-> "ok", vals |-> <<>>, rest |-> raw]
    ELSE LET r == read_u64(raw)
             more == ReadInts(r.rest, k - 1)
         IN  IF r.st # "ok" THEN [st |-> r.st, vals |-> <<>>, rest |-> raw]
             ELSE IF more.st # "ok" THEN more
             ELSE [more EXCEPT !.vals = <<r.n>> \o @]

(***************************************************************************)
(* neovim/events.rs: decoding redraw events.  A decoder returns            *)
(* [st, ev, rest].                                                         *)
(***************************************************************************)
DecodeFailed(st, raw) == [st |-> st, ev |-> <<>>, rest |-> raw]

\* RedrawEvent::decode_grid_resize.
decode_grid_resize(raw) ==
    LET c == ensure_parameters_count(raw, 3)
        i == ReadInts(c.rest, 3)
    IN  IF c.st # "ok" THEN DecodeFailed(c.st, raw)
        ELSE IF i.st # "ok" THEN DecodeFailed(i.st, raw)
        ELSE [st |-> "ok", ev |-> <<"GridResize", i.vals[1], i.vals[2], i.vals[3]>>,
              rest |-> i.rest]

\* RedrawEvent::decode_grid_clear.
decode_grid_clear(raw) ==
    LET c == ensure_parameters_count(raw, 1)
        i == ReadInts(c.rest, 1)
    IN  IF c.st # "ok" THEN DecodeFailed(c.st, raw)
        ELSE IF i.st # "ok" THEN DecodeFailed(i.st, raw)
        ELSE [st |-> "ok", ev |-> <<"GridClear", i.vals[1]>>, rest |-> i.rest]

\* The anchors decode_win_float_pos knows.
WinFloatAnchors == {"NW", "NE", "SW", "SE"}

\* RedrawEvent::decode_win_float_pos: grid, win (WinNr::decode: an ext header
\* and an integer), anchor, three integers, a bool.  An anchor it does not
\* know is unreachable!().
decode_win_float_pos(raw) ==
    LET c == ensure_parameters_count(raw, 7)
        grid == read_u64(c.rest)
        meta == read_ext_meta(grid.rest)
        win == read_u64(meta.rest)
        anchor == read_string(win.rest)
        pos == ReadInts(anchor.rest, 3)
        focusable == read_bool(pos.rest)
    IN  IF c.st # "ok" THEN DecodeFailed(c.st, raw)
        ELSE IF grid.st # "ok" THEN DecodeFailed(grid.st, raw)
        ELSE IF meta.st # "ok" THEN DecodeFailed(meta.st, raw)
        ELSE IF win.st # "ok" THEN DecodeFailed(win.st, raw)
        ELSE IF anchor.st # "ok" THEN DecodeFailed(anchor.st, raw)
        ELSE IF anchor.s \notin WinFloatAnchors THEN DecodeFailed("panic", raw)
        ELSE IF pos.st # "ok" THEN DecodeFailed(pos.st, raw)
        ELSE IF focusable.st # "ok" THEN DecodeFailed(focusable.st, raw)
        ELSE [st |-> "ok", ev |-> <<"WinFloatPos", grid.n, win.n, anchor.s>>,
              rest |-> focusable.rest]

\* The decoder decode_single calls n_events times for an event type.
DecodeParams(event_type, raw) ==
    CASE event_type = "grid_resize" -> decode_grid_resize(raw)
      [] event_type = "grid_clear" -> decode_grid_clear(raw)
      [] event_type = "win_float_pos" -> decode_win_float_pos(raw)

\* for _ in 0..n_events { events.push(Self::decode_...(raw)?) }:
\* [st, events, rest].
RECURSIVE DecodeEach(_, _, _, _)
DecodeEach(event_type, raw, n_events, events) ==
    IF n_events = 0 THEN [st |-> "ok", events |-> events, rest |-> raw]
    ELSE LET d == DecodeParams(event_type, raw)
         IN  IF d.st # "ok" THEN [st |-> d.st, events |-> events, rest |-> raw]
             ELSE DecodeEach(event_type, d.rest, n_events - 1, Append(events, d.ev))

\* The event types whose parameter tuples decode_single decodes in a loop.
LoopEventTypes == {"grid_resize", "grid_clear", "win_float_pos"}

\* RedrawEvent::decode_single(raw, events): [st, events, rest].  event_len - 1
\* with event_len = 0 overflows: a panic with overflow checks, and without
\* them a panic of events.reserve(usize::MAX).
decode_single(raw, events) ==
    LET l == read_array_len(raw)
        t == read_string(l.rest)
    IN  IF l.st # "ok" THEN [st |-> l.st, events |-> events, rest |-> raw]
        ELSE IF l.n = 0 THEN [st |-> "panic", events |-> events, rest |-> raw]
        ELSE IF t.st # "ok" THEN [st |-> t.st, events |-> events, rest |-> raw]
        ELSE IF t.s \in LoopEventTypes THEN DecodeEach(t.s, t.rest, l.n - 1, events)
        ELSE IF t.s = "flush"
             THEN LET c == ensure_parameters_count(t.rest, 0)
                  IN  IF c.st # "ok" THEN [st |-> c.st, events |-> events, rest |-> raw]
                      ELSE [st |-> "ok", events |-> Append(events, <<"Flush">>),
                            rest |-> c.rest]
        ELSE [st |-> "err", events |-> events, rest |-> raw]

\* A decode that returns the events decoded before the error.
RECURSIVE DecodeBatchesPartial(_, _, _)
DecodeBatchesPartial(raw, n_events, events) ==
    IF n_events = 0 THEN [st |-> "ok", events |-> events, rest |-> raw]
    ELSE LET d == decode_single(raw, events)
         IN  IF d.st = "err" THEN [st |-> "ok", events |-> d.events, rest |-> <<>>]
             ELSE IF d.st # "ok" THEN d
             ELSE DecodeBatchesPartial(d.rest, n_events - 1, d.events)

\* The loop of RedrawEvent::decode over the n_events batches.
RECURSIVE DecodeBatches(_, _, _)
DecodeBatches(raw, n_events, events) ==
    IF n_events = 0 THEN [st |-> "ok", events |-> events, rest |-> raw]
    ELSE LET d == decode_single(raw, events)
         IN  IF d.st # "ok" THEN d
             ELSE DecodeBatches(d.rest, n_events - 1, d.events)

\* RedrawEvent::decode(raw).
decode(raw) ==
    LET n == read_array_len(raw)
    IN  IF n.st # "ok" THEN [st |-> n.st, events |-> <<>>, rest |-> raw]
        ELSE DecodeBatches(n.rest, n.n, <<>>)

(***************************************************************************)
(* neovim/rpc.rs: EventReceiver::start_loop.  rx.st is "wait" at read_buf,  *)
(* "err" when the loop returned an error (rx.cause tells which), "panic"   *)
(* when it panicked; rx.delivered are the events handed to                 *)
(* listener.on_redraw_event, in the order of the calls.                    *)
(***************************************************************************)
RECURSIVE Reverse(_)
Reverse(q) == IF q = <<>> THEN <<>> ELSE Append(Reverse(Tail(q)), Head(q))

\* A delivery that hands the events of a notification over last to first.
DeliverAllReversed(delivered, events) == delivered \o Reverse(events)

\* events.into_iter().for_each(|e| listener.on_redraw_event(e)).
DeliverAll(delivered, events) == delivered \o events

\* The receiver after a turn that read bytes: the stream was not at its end.
LoopEnded(st, cause, delivered) ==
    [st |-> st, cause |-> cause, eof |-> FALSE, delivered |-> delivered]

\* while !recv.is_empty() { ... }: the state of the loop after the read.
RECURSIVE WhileRecv(_, _)
WhileRecv(recv, delivered) ==
    IF recv = <<>> THEN LoopEnded("wait", "none", delivered)
    ELSE LET len == read_array_len(recv)
             kind == read_u64(len.rest)
             method == read_string(kind.rest)
             d == decode(method.rest)
         IN  IF len.st # "ok" THEN LoopEnded("err", "decode", delivered)
             ELSE IF kind.st # "ok" THEN LoopEnded("err", "decode", delivered)
             ELSE IF kind.n \in {0, 1} THEN LoopEnded("wait", "none", delivered)
             ELSE IF kind.n # 2 THEN LoopEnded("panic", "none", delivered)
             ELSE IF method.st = "panic" THEN LoopEnded("panic", "none", delivered)
             ELSE IF method.st # "ok" THEN LoopEnded("err", "decode", delivered)
             ELSE IF method.s # "redraw" THEN LoopEnded("wait", "none", delivered)
             ELSE IF d.st = "panic" THEN LoopEnded("panic", "none", delivered)
             ELSE IF d.st # "ok" THEN LoopEnded("wait", "none", delivered)
             ELSE WhileRecv(d.rest, DeliverAll(delivered, d.events))

\* One turn of the loop with n > 0 bytes read.
ReadBuf(bytes) ==
    /\ rx.st = "wait" /\ ~rx.eof /\ bytes # <<>>
    /\ rx' = WhileRecv(bytes, rx.delivered)
    /\ UNCHANGED <<modes, curr_mode, cursor_style_enabled, hl_groups, buffers, back_info, input_idx,
                   output_idx, chan, status, wpc, wloc, rpc>>

\* One turn of the loop with n = 0, which read_buf returns at the end of the
\* stream (nvim closed its stdout): spin_loop_hint and continue.
ReadNothing ==
    /\ rx.st = "wait"
    /\ rx' = [rx EXCEPT !.eof = TRUE]
    /\ UNCHANGED <<modes, curr_mode, cursor_style_enabled, hl_groups, buffers, back_info, input_idx,
                   output_idx, chan, status, wpc, wloc, rpc>>

\* read_buf returned an error: start_loop returns it.
ReadFailed ==
    /\ rx.st = "wait" /\ ~rx.eof
    /\ rx' = LoopEnded("err", "transport", rx.delivered)
    /\ UNCHANGED <<modes, curr_mode, cursor_style_enabled, hl_groups, buffers, back_info, input_idx,
                   output_idx, chan, status, wpc, wloc, rpc>>

(***************************************************************************)
(* The reads of the receive loop: what nvim may write to its stdout.  A     *)
(* frame is [bytes, events, class]: its tokens, the redraw events it holds  *)
(* in the order of its bytes, and what kind of frame it is.  The grids of   *)
(* a frame's events are numbered from k, so that no two events of a stream  *)
(* are equal.                                                              *)
(***************************************************************************)
Frame(bytes, events, class) == [bytes |-> bytes, events |-> events, class |-> class]

\* [2, "redraw", [batch, ...]] with n batches.
Notification(n, batches) == <<TArr(3), TInt(2), TStr("redraw"), TArr(n)>> \o batches

\* [name, params, ...] with n parameter tuples.
Batch(name, n, tuples) == <<TArr(1 + n), TStr(name)>> \o tuples

EncResize(g) == <<TArr(3), TInt(g), TInt(4), TInt(2)>>
EncClear(g) == <<TArr(1), TInt(g)>>
EncFloatPos(g, anchor) ==
    <<TArr(7), TInt(g), TExt, TInt(1000), TStr(anchor), TInt(1), TInt(0), TInt(0), TBool>>

EvResize(g) == <<"GridResize", g, 4, 2>>
EvClear(g) == <<"GridClear", g>>
EvFloatPos(g, anchor) == <<"WinFloatPos", g, 1000, anchor>>

\* Well-formed notifications of known events.
PlainFrames(k) ==
    { Frame(Notification(1, Batch("grid_resize", 2, EncResize(k) \o EncResize(k + 1))),
            <<EvResize(k), EvResize(k + 1)>>, "plain"),
      Frame(Notification(2, Batch("grid_clear", 1, EncClear(k))
                            \o Batch("grid_resize", 1, EncResize(k + 1))),
            <<EvClear(k), EvResize(k + 1)>>, "plain"),
      Frame(Notification(2, Batch("win_float_pos", 1, EncFloatPos(k, "NW"))
                            \o Batch("flush", 1, <<TArr(0)>>)),
            <<EvFloatPos(k, "NW"), <<"Flush">>>>, "plain") }

\* A well-formed notification with a batch of an event name this client does
\* not know between two batches it knows.
UnknownNameFrames(k) ==
    { Frame(Notification(3, Batch("grid_clear", 1, EncClear(k))
                            \o Batch("ext_new_event", 1, EncClear(k + 1))
                            \o Batch("grid_clear", 1, EncClear(k + 2))),
            <<EvClear(k), EvClear(k + 2)>>, "unknown") }

\* Well-formed messages that are not redraw notifications: a request, a
\* response, a notification of another method.
OtherFrames ==
    { Frame(<<TArr(4), TInt(0), TInt(7), TStr("nvim_ping"), TArr(0)>>, <<>>, "other"),
      Frame(<<TArr(4), TInt(1), TInt(7), TBool, TBool>>, <<>>, "other"),
      Frame(<<TArr(3), TInt(2), TStr("nvim_buf_lines_event"), TArr(0)>>, <<>>, "other") }

\* Frames with a decode error: a header that is no array, a kind that is no
\* integer, a method that is no string, a wrong arity, a wrong value kind.
MalformedFrames(k) ==
    { Frame(<<TInt(5)>>, <<>>, "header"),
      Frame(<<TArr(3), TStr("redraw")>>, <<>>, "header"),
      Frame(<<TArr(3), TInt(2), TInt(5)>>, <<>>, "header"),
      Frame(Notification(1, Batch("grid_resize", 1, <<TArr(2), TInt(k), TInt(4)>>)),
            <<>>, "params"),
      Frame(Notification(2, Batch("grid_resize", 1, EncResize(k))
                            \o Batch("grid_clear", 1, <<TArr(1), TStr("x")>>)),
            <<>>, "params") }

\* Frames whose content the decoder has no error value for: a kind other than
\* 0, 1 and 2, a string longer than the read, an event array of length 0, an
\* anchor that is none of the four.
HostileFrames(k) ==
    { Frame(<<TArr(3), TInt(3), TStr("redraw"), TArr(0)>>, <<>>, "hostile"),
      Frame(<<TArr(3), TInt(2), TStrCut>>, <<>>, "hostile"),
      Frame(Notification(1, <<TArr(0)>>), <<>>, "hostile"),
      Frame(Notification(1, Batch("win_float_pos", 1, EncFloatPos(k, "XX"))),
            <<>>, "hostile") }

Frames(k) ==
    PlainFrames(k) \cup UnknownNameFrames(k) \cup OtherFrames
        \cup MalformedFrames(k) \cup HostileFrames(k)

\* The ids one frame may use.
FrameIds == 3

\* A read holds one frame or two: [bytes, events, classes, frames].
Reads(k) ==
    { [bytes |-> f.bytes, events |-> f.events, classes |-> {f.class}, frames |-> 1] :
        f \in Frames(k) }
    \cup { [bytes |-> f.bytes \o g.bytes, events |-> f.events \o g.events,
            classes |-> {f.class, g.class}, frames |-> 2] :
             f \in PlainFrames(k) \cup OtherFrames, g \in Frames(k + FrameIds) }

\* The grid ids of the notification of the read rd for which decode returns
\* an error: its parameters do not decode or it holds an event name that
\* decode_single does not know (in a read of two frames it is the second);
\* k is the first id of the read.
FailedGrids(rd, k) ==
    IF rd.classes \cap {"params", "unknown"} = {} THEN {}
    ELSE IF rd.frames = 1 THEN k..(k + FrameIds - 1)
    ELSE (k + FrameIds)..(k + 2 * FrameIds - 1)

\* read_buf returned the read rd.
NoteRead(rd) ==
    hist' = [hist EXCEPT !.reads = @ + 1, !.nextid = @ + rd.frames * FrameIds,
                         !.stream = @ \o rd.events, !.classes = @ \cup rd.classes,
                         !.failed = @ \cup FailedGrids(rd, hist.nextid)]

\* read_buf returned without a byte, or with an error.
NoteEmptyRead == hist' = [hist EXCEPT !.reads = @ + 1]

MoreReads == hist.reads < MaxReads

InitRpc == InitProg /\ InitHist

NextRpc ==
    \/ MoreReads /\ \E rd \in Reads(hist.nextid) : ReadBuf(rd.bytes) /\ NoteRead(rd)
    \/ MoreReads /\ ~rx.eof /\ ReadNothing /\ NoteEmptyRead
    \/ rx.eof /\ ReadNothing /\ UNCHANGED hist
    \/ MoreReads /\ ReadFailed /\ NoteEmptyRead

SpecRpc == InitRpc /\ [][NextRpc]_vars

\* The runtime keeps polling the task of the loop: a turn that can be taken
\* is taken.
SpecRpcFair == SpecRpc /\ WF_vars(NextRpc)

(***************************************************************************)
(* SpecLine: the receive loop decodes grid_line events, one per read, and   *)
(* delivers them.  hist.stream holds the cell tuples of the lines that      *)
(* decoded, rx.delivered the decoded events.                               *)
(***************************************************************************)
\* The first cell tuple of a line, and the tuples after it.
FirstTuples == { <<(<<"a">>), MpInt(1)>>, <<(<<"a">>), MpInt(2), MpInt(3)>>, <<(<<"a">>)>> }
LaterTuples ==
    { <<(<<"b">>)>>, <<(<<"b">>), MpInt(1)>>, <<(<<"b">>), MpInt(2), MpInt(3)>>,
      <<(<<"b">>), MpNil>> }

LineTuples == { <<t1, t2, t3>> : t1 \in FirstTuples, t2 \in LaterTuples, t3 \in LaterTuples }

\* A read with one grid_line that decodes: the event is delivered.
ReadGridLine(tuples) ==
    LET d == decode_grid_line(0, 0, tuples)
    IN  /\ rx.st = "wait" /\ d.st = "ok"
        /\ rx' = [rx EXCEPT !.delivered = DeliverAll(@, << <<"GridLine", d.line>> >>)]
        /\ hist' = [hist EXCEPT !.reads = @ + 1, !.stream = Append(@, tuples)]
        /\ UNCHANGED <<modes, curr_mode, cursor_style_enabled, hl_groups, buffers, back_info,
                       input_idx,
                   output_idx, chan, status, wpc, wloc, rpc>>

\* A read with one grid_line that does not decode: the read is dropped.
ReadBadGridLine(tuples) ==
    /\ rx.st = "wait" /\ decode_grid_line(0, 0, tuples).st # "ok"
    /\ hist' = [hist EXCEPT !.reads = @ + 1]
    /\ UNCHANGED prog

InitLine == InitProg /\ InitHist

NextLine ==
    \/ MoreReads /\ \E tuples \in LineTuples : ReadGridLine(tuples)
    \/ MoreReads /\ \E tuples \in LineTuples : ReadBadGridLine(tuples)

SpecLine == InitLine /\ [][NextLine]_vars

(***************************************************************************)
(* editor.rs: HighlightGroups.  groups[id + 1] is the entry of id.         *)
(***************************************************************************)
\* Option::or.
Or(a, b) == IF a # NoColor THEN a ELSE b

\* RgbAttr::reverse_rgb_attr (not among the sources; by the doc comment of
\* RgbAttr::reverse, foreground and background are switched).
reverse_rgb_attr(hl) ==
    [hl EXCEPT !.foreground = hl.background, !.background = hl.foreground]

\* One turn of the loop of HighlightGroups::update: the table grows to
\* hl.id entries when it has no more than hl.id, and groups[hl.id] is
\* assigned: an index out of bounds when the table has hl.id entries.
UpdateOne(t, hl) ==
    LET grown == IF Len(t.groups) <= hl.id
                 THEN ResizeWith(t.groups, hl.id, DefaultRgbAttr)
                 ELSE t.groups
    IN  IF hl.id < Len(grown)
        THEN [t EXCEPT !.groups = [grown EXCEPT ![hl.id + 1] = hl.rgb_attr]]
        ELSE [t EXCEPT !.st = "panic", !.groups = grown]

RECURSIVE UpdateLoop(_, _)
UpdateLoop(t, hl_attrs) ==
    IF hl_attrs = <<>> \/ t.st # "ok" THEN t
    ELSE UpdateLoop(UpdateOne(t, Head(hl_attrs)), Tail(hl_attrs))

\* HighlightGroups::update_default(default).
update_default(default) ==
    /\ hl_groups.st = "ok"
    /\ hl_groups' = [hl_groups EXCEPT !.default = default]
    /\ UNCHANGED <<modes, curr_mode, cursor_style_enabled, buffers, back_info, input_idx,
                 output_idx, chan, status, wpc, wloc, rpc, rx>>

\* HighlightGroups::update(hl_attrs).
update(hl_attrs) ==
    /\ hl_groups.st = "ok"
    /\ hl_groups' = UpdateLoop(hl_groups, hl_attrs)
    /\ UNCHANGED <<modes, curr_mode, cursor_style_enabled, buffers, back_info, input_idx,
                 output_idx, chan, status, wpc, wloc, rpc, rx>>

\* A lookup that indexes the table instead of calling get.
GroupColorSetIndexed(hl_id) ==
    IF hl_id < Len(hl_groups.groups)
    THEN [st |-> "ok", attr |-> hl_groups.groups[hl_id + 1]]
    ELSE [st |-> "panic", attr |-> DefaultRgbAttr]

\* HighlightGroups::group_color_set(hl_id): [st, attr].
group_color_set(hl_id) ==
    IF hl_id < Len(hl_groups.groups)
    THEN LET g == hl_groups.groups[hl_id + 1]
             hl == [g EXCEPT !.foreground = Or(g.foreground, hl_groups.default.foreground),
                             !.background = Or(g.background, hl_groups.default.background),
                             !.special = Or(g.special, hl_groups.default.special)]
         IN  [st |-> "ok", attr |-> IF hl.reverse THEN reverse_rgb_attr(hl) ELSE hl]
    ELSE [st |-> "ok", attr |-> hl_groups.default]

\* A caller resolves hl_id.
Resolve(hl_id) ==
    /\ hl_groups.st = "ok"
    /\ hist' = [hist EXCEPT !.nops = @ + 1,
                            !.resolved = [id |-> hl_id, st |-> group_color_set(hl_id).st,
                                          attr |-> group_color_set(hl_id).attr]]
    /\ UNCHANGED prog

\* update(hl_attrs) was called.
NoteDefine(hl_attrs) == hist' = [hist EXCEPT !.nops = @ + 1, !.defined = @ \o hl_attrs]

(***************************************************************************)
(* SpecHl: at most MaxOps calls on one HighlightGroups.                    *)
(***************************************************************************)
HlIds == {0, 1, 5}

\* An attribute with only the background set, and one with everything set.
HlRgbAttrs == { RgbAttr(NoColor, "bg7", NoColor, FALSE), RgbAttr("fg8", "bg8", "sp8", TRUE) }

HighlightAttr(id, rgb_attr) == [id |-> id, rgb_attr |-> rgb_attr]

HighlightAttrs == {HighlightAttr(id, a) : id \in HlIds, a \in HlRgbAttrs}

\* The arguments of update: no, one or two definitions.
HlAttrLists ==
    {<<>>} \cup {<<h>> : h \in HighlightAttrs}
        \cup {<<h, g>> : h \in HighlightAttrs, g \in HighlightAttrs}

\* The defaults of default_colors_set.
HlDefaults == { RgbAttr("fg1", "bg1", "sp1", FALSE), RgbAttr("fg2", "bg2", "sp2", FALSE) }

InitHl == InitProg /\ InitHist

NextHl ==
    \/ MoreOps /\ \E d \in HlDefaults : update_default(d) /\ NoteOp
    \/ MoreOps /\ \E hl_attrs \in HlAttrLists : update(hl_attrs) /\ NoteDefine(hl_attrs)
    \/ MoreOps /\ \E id \in HlIds : Resolve(id)

SpecHl == InitHl /\ [][NextHl]_vars

(***************************************************************************)
(* SpecChan: the event thread sends up to MaxSends UI events and the task   *)
(* of main.rs receives them.  The n-th call of send_event carries the       *)
(* highlight id n; hist.nsent counts the calls, hist.received holds what    *)
(* the task received.  SpecChanFair adds the scheduling: a thread that      *)
(* spins in send_event keeps calling try_send, and the runtime keeps        *)
(* polling the receiving task while the channel holds an event.             *)
(***************************************************************************)
\* Enough calls to meet the full channel twice.
MaxSends == MPSC_CHANNEL_BUFFER_SIZE + 2

NoteSend == hist' = [hist EXCEPT !.nsent = @ + 1]

NoteRecv == hist' = [hist EXCEPT !.received = Append(@, Head(chan))]

DefineNext == hist.nsent < MaxSends /\ define_hl_attr(hist.nsent + 1) /\ NoteSend

TrySend == SendEvent /\ UNCHANGED hist

RecvNext == Recv /\ NoteRecv

InitChan == InitProg /\ InitHist

NextChan ==
    \/ DefineNext
    \/ TrySend
    \/ RecvNext

SpecChan == InitChan /\ [][NextChan]_vars

SpecChanFair == SpecChan /\ WF_vars(TrySend) /\ WF_vars(RecvNext)

(***************************************************************************)
(* editor.rs: the modes of the editor.  modes[i + 1] is the mode of index  *)
(* i.                                                                      *)
(***************************************************************************)
\* Editor::set_modes_info(modes, cursor_style_enabled).
set_modes_info(mode_infos, enabled) ==
    /\ WriterIdle
    /\ modes' = mode_infos
    /\ cursor_style_enabled' = enabled
    /\ UNCHANGED <<curr_mode, hl_groups, buffers, back_info, input_idx, output_idx, chan, status,
                   wpc, wloc, rpc, rx>>

\* A change_mode that trusts the index of the event.
ChangeModeUnchecked(mode_idx) ==
    /\ WriterIdle
    /\ curr_mode' = mode_idx
    /\ UNCHANGED <<modes, cursor_style_enabled, hl_groups, buffers, back_info, input_idx,
                   output_idx, chan, status, wpc, wloc, rpc, rx>>

\* Editor::change_mode(mode_idx).
change_mode(mode_idx) ==
    /\ WriterIdle
    /\ curr_mode' = IF mode_idx < Len(modes) THEN mode_idx ELSE curr_mode
    /\ UNCHANGED <<modes, cursor_style_enabled, hl_groups, buffers, back_info, input_idx,
                   output_idx, chan, status, wpc, wloc, rpc, rx>>

\* mode_info_set and mode_change events were handled.
NoteModes == hist' = [hist EXCEPT !.nops = @ + 1, !.last = [op |-> "mode_info_set"]]

NoteMode(mode_idx) ==
    hist' = [hist EXCEPT !.nops = @ + 1,
                         !.last = [op |-> "mode_change", mode_idx |-> mode_idx]]

(***************************************************************************)
(* SpecMode: at most MaxOps mode_info_set and mode_change events.          *)
(***************************************************************************)
ModeInfo(cursor_shape, cell_percentage, attr_id) ==
    [cursor_shape |-> cursor_shape, cell_percentage |-> cell_percentage, attr_id |-> attr_id]

ModeInfos == { ModeInfo("Block", 100, 0), ModeInfo("Vertical", 25, 1) }

\* The mode-info arrays of mode_info_set: none, one or two modes.
ModeInfoLists ==
    {<<>>} \cup {<<m>> : m \in ModeInfos} \cup {<<m, n>> : m \in ModeInfos, n \in ModeInfos}

\* The indices of mode_change: inside and past the longest array.
ModeIndices == 0..3

InitMode == InitProg /\ InitHist

NextMode ==
    \/ MoreOps /\ \E ms \in ModeInfoLists, enabled \in BOOLEAN :
                     set_modes_info(ms, enabled) /\ NoteModes
    \/ MoreOps /\ \E mode_idx \in ModeIndices : change_mode(mode_idx) /\ NoteMode(mode_idx)

SpecMode == InitMode /\ [][NextMode]_vars

(***************************************************************************)
(* SpecWake: the event thread of Spec with a UI thread that receives the    *)
(* Redraw events and calls buffer() once for each: it receives an event,    *)
(* acquires, drops the reference, and only then receives the next.          *)
(* hist.owed is the number of events received and not yet followed by       *)
(* their buffer().                                                         *)
(***************************************************************************)
\* The UI thread received a Redraw event.
NoteWake == hist' = [hist EXCEPT !.owed = 1]

\* The UI thread calls buffer() for the event it received.
NoteWakeLoad == hist' = [hist EXCEPT !.owed = 0, !.rsteps = 1, !.loadnpub = hist.npub]

\* The UI thread waits for an event: it is not inside buffer() and owes none.
ReaderWaiting == rpc = "idle" /\ hist.owed = 0

InitWake == InitProg /\ InitHist

NextWake ==
    \/ resize_grid(2, 1) /\ UNCHANGED hist
    \/ \E gl \in ConcLines : redraw_grid_line(gl) /\ UNCHANGED hist
    \/ /\ hist.npub < MaxPublish
       /\ \E done \in RenderOrders(buffers[input_idx]) :
             FlushRender(done) /\ hist' = [hist EXCEPT !.wsteps = 0]
    \/ PublishSteps
    \/ ReaderWaiting /\ Recv /\ NoteWake
    \/ hist.owed = 1 /\ ReaderLoad /\ NoteWakeLoad
    \/ ReaderSwap /\ NoteReaderSwap
    \/ ReaderRelease /\ UNCHANGED hist

SpecWake == InitWake /\ [][NextWake]_vars

(***************************************************************************)
(* SpecRender: the event thread on a grid of one row and RenderCols        *)
(* columns: resize, grid_line events that write the row from its first     *)
(* column, and flush.                                                      *)
(***************************************************************************)
RenderCols == 3

\* The cells of a rendered row: a character or the empty right half of a
\* double-width character, with one of three highlights.
RenderCells3 == { GridCell(text, hl_id, 1) : text \in {<<>>, <<"a">>}, hl_id \in 1..3 }

RenderLines ==
    { GridLine(0, 0, cells) :
        cells \in {<<c>> : c \in RenderCells3}
                  \cup {<<c, d>> : c \in RenderCells3, d \in RenderCells3}
                  \cup {<<c, d, e>> : c \in RenderCells3, d \in RenderCells3,
                                      e \in RenderCells3} }

InitRender == InitProg /\ InitHist

NextRender ==
    \/ MoreOps /\ resize_grid(RenderCols, 1) /\ NoteResize(RenderCols, 1)
    \/ MoreOps /\ \E gl \in RenderLines : redraw_grid_line(gl) /\ NoteLine(gl)
    \/ MoreOps /\ \E done \in RenderOrders(buffers[input_idx]) : FlushRender(done) /\ NoteFlush
    \/ PublishSteps

SpecRender == InitRender /\ [][NextRender]_vars

(***************************************************************************)
(* SpecChunk: nvim writes two well-formed redraw notifications to its       *)
(* stdout and read_buf returns them in reads of any lengths: each read      *)
(* returns one or more of the tokens not yet read (hist.unread).            *)
(* hist.stream holds the events of the two notifications.                   *)
(***************************************************************************)
\* read_buf returned the first n unread tokens.
ReadChunk(n) ==
    /\ ReadBuf(SubSeq(hist.unread, 1, n))
    /\ hist' = [hist EXCEPT !.reads = @ + 1, !.unread = SubSeq(@, n + 1, Len(@))]

InitChunk ==
    /\ InitProg
    /\ \E f \in PlainFrames(1), g \in PlainFrames(1 + FrameIds) :
          hist = [NoHistory EXCEPT !.stream = f.events \o g.events,
                                   !.unread = f.bytes \o g.bytes]

NextChunk == \E n \in 1..Len(hist.unread) : ReadChunk(n)

SpecChunk == InitChunk /\ [][NextChunk]_vars

(***************************************************************************)
(* Claims on the triple buffer (specification Spec).                       *)
(***************************************************************************)
\* The places of the event thread inside publish().
PublishPcs == {"swap", "clone_cells", "clone_rows", "clone_cols", "clone_cached",
               "clone_dirty", "ret"}

\* The places after the swap of publish().
AfterSwapPcs == PublishPcs \ {"swap"}

\* C1: in every reachable state the writer's input index, the reader's output
\* index and the back index of the shared descriptor are three different
\* slots of {0, 1, 2}.
C1_SlotsDisjoint ==
    /\ {input_idx, output_idx, BackIndex(back_info)} \subseteq 0..2
    /\ input_idx # output_idx
    /\ input_idx # BackIndex(back_info)
    /\ output_idx # BackIndex(back_info)

\* The reader holds the slot of the first publication while the writer, after
\* its second publication, clones into the slot the reader gave back.
C1_Witness ==
    /\ rpc = "reading" /\ wpc = "clone_cells"
    /\ output_idx = 1 /\ input_idx = 2 /\ back_info = 0 + BACK_DIRTY_BIT

\* C2: the grid in the slot buffer() returned is, for as long as the reader
\* holds the reference, the writer's grid as it was at some flush, or the
\* initial empty grid.
C2_SnapshotComplete ==
    rpc = "reading" => buffers[output_idx] \in hist.flushed

\* The reader holds a published one-row grid with text while the writer is in
\* the middle of clone_from.
C2_Witness ==
    /\ rpc = "reading"
    /\ buffers[output_idx].rows = 1
    /\ buffers[output_idx].cached_sections[1].text # <<>>
    /\ wpc \in {"clone_rows", "clone_cols", "clone_cached"}

\* C3: publish() returns the dirty bit its swap found, and that is true
\* exactly when there was a publication before and the reader did no swap
\* since then.
C3_PublishResult ==
    (status = "ok" /\ wpc \in AfterSwapPcs) =>
        /\ PublishResult(wloc.former_back_info) = hist.wasdirty
        /\ PublishResult(wloc.former_back_info) = hist.expect

\* A publish that follows a swap of the reader returns false although it is
\* not the first.
C3_Witness ==
    /\ wpc = "ret" /\ hist.npub >= 2
    /\ ~PublishResult(wloc.former_back_info)

\* One step of publish().
PublishStep ==
    PublishSwap \/ CloneCells \/ CloneRows \/ CloneCols \/ CloneCached \/ CloneDirty
    \/ PublishReturn

\* The steps of publish(): the swap, the five fields of clone_from, the return.
PublishLength == 1 + 5 + 1

\* The steps of buffer(): the load and the swap.
AcquireLength == 1 + 1

\* C4: inside publish() the writer's next step is enabled whatever the reader
\* does, and publish() is over after PublishLength steps of the writer; the
\* reader can always start buffer(), its swap is enabled whatever the writer
\* does, and buffer() has returned after at most AcquireLength steps.
C4_NonBlocking ==
    /\ (status = "ok" /\ wpc \in PublishPcs) => ENABLED PublishStep
    /\ wpc \in PublishPcs => hist.wsteps < PublishLength
    /\ (status # "ub" /\ rpc = "idle") => ENABLED ReaderLoad
    /\ (status # "ub" /\ rpc = "swap") => ENABLED ReaderSwap
    /\ rpc = "swap" => hist.rsteps < AcquireLength
    /\ rpc = "reading" => hist.rsteps <= AcquireLength

\* The reader is about to swap while the writer is in the middle of clone_from.
C4_Witness ==
    /\ rpc = "swap" /\ wpc = "clone_cached" /\ hist.npub >= 2

(***************************************************************************)
(* Claims on the grid (specification SpecGrid).                            *)
(***************************************************************************)
\* The grid the event thread writes to.
InputGrid == buffers[input_idx]

\* The cell of row r and column c of a grid.
CellAt(l, r, c) == l.cells[r * l.cols + c + 1]

\* The event thread is inside writing.clone_from(complete).
CloneRunning == wpc \in {"clone_rows", "clone_cols", "clone_cached", "clone_dirty"}

\* C5: the cell array of every slot has rows * cols cells after each resize,
\* clear, update_line, scroll and render of the event thread and after each
\* clone_from of publish (the slot clone_from is writing is left out while
\* clone_from runs).
C5_RowInvariant ==
    \A i \in 0..2 :
        (i = input_idx /\ CloneRunning)
        \/ Len(buffers[i].cells) = buffers[i].rows * buffers[i].cols

\* A grid of two cells was flushed and clone_from has copied it into the new
\* input slot.
C5_Witness ==
    /\ WriterIdle /\ hist.npub = 1
    /\ Len(InputGrid.cells) = 2 /\ InputGrid.rows * InputGrid.cols = 2
    /\ InputGrid.cells # <<DefaultLineCell, DefaultLineCell>>

\* The sections of a sectioned line are in order, contiguous, start at byte 0
\* and end at the byte length of the text.
SectionsCover(sl) ==
    LET n == Len(sl.sections)
    IN  IF StrLen(sl.text) = 0 THEN n = 0
        ELSE /\ n >= 1
             /\ sl.sections[1].start = 0
             /\ sl.sections[n].end = StrLen(sl.text)
             /\ \A k \in 1..n : sl.sections[k].start < sl.sections[k].end
             /\ \A k \in 1..(n - 1) : sl.sections[k].end = sl.sections[k + 1].start

\* C6: right after render, the cached sections of every row cover the row's
\* text: in order, contiguous, from byte 0 to the byte length of the text.
C6_SectionCoverage ==
    (status = "ok" /\ wpc = "swap") =>
        \A r \in 1..Len(InputGrid.cached_sections) : SectionsCover(InputGrid.cached_sections[r])

\* The last event was a scroll that returned, with a region inside the grid it
\* ran on.
ScrollReturned ==
    /\ WriterIdle /\ hist.last.op = "scroll"
    /\ hist.last.sc.top <= hist.last.sc.bottom /\ hist.last.sc.bottom < hist.last.pre.rows
    /\ hist.last.sc.left <= hist.last.sc.right /\ hist.last.sc.right <= hist.last.pre.cols

\* C7: after a scroll by delta # 0 of a region inside the grid, every row r of
\* [top, bottom] whose source row r + delta is in [top, bottom] holds in the
\* columns [left, right) what row r + delta held before the scroll.
C7_ScrollResult ==
    (ScrollReturned /\ hist.last.sc.rows # 0) =>
        LET sc == hist.last.sc
            pre == hist.last.pre
        IN  \A r \in sc.top..sc.bottom :
                (r + sc.rows) \in sc.top..sc.bottom =>
                    \A c \in sc.left..(sc.right - 1) :
                        CellAt(InputGrid, r, c) = CellAt(pre, r + sc.rows, c)

\* C8: a scroll leaves every cell outside the rows [top, bottom] and every
\* cell outside the columns [left, right) as it was, and a scroll by 0 leaves
\* the whole grid as it was.
C8_ScrollFrame ==
    ScrollReturned =>
        LET sc == hist.last.sc
            pre == hist.last.pre
        IN  /\ \A r \in 0..(pre.rows - 1), c \in 0..(pre.cols - 1) :
                  (r \notin sc.top..sc.bottom \/ c \notin sc.left..(sc.right - 1)) =>
                      CellAt(InputGrid, r, c) = CellAt(pre, r, c)
            /\ sc.rows = 0 => InputGrid = pre

\* C10: between two events, every row that is not in the dirty set has the
\* cached line that render produces from the row's cells.
C10_DirtyTracking ==
    WriterIdle =>
        \A r \in 0..(InputGrid.rows - 1) :
            r \notin InputGrid.dirty_lines =>
                /\ r < Len(InputGrid.cached_sections)
                /\ LineInRange(InputGrid, r)
                /\ InputGrid.cached_sections[r + 1] = RenderLine(LineAt(InputGrid, r), EmptySectioned)

(***************************************************************************)
(* Claim on the end-to-end scenario (specification SpecE2E).               *)
(***************************************************************************)
\* The decoded events of the scenario.  The second cell has no highlight id
\* of its own: decoded, it carries the id 1 of the cell before it.
Scenario ==
    << <<"grid_resize", 10, 1>>,
       <<"hl_attr_define", 1>>,
       <<"grid_line", GridLine(0, 0, <<GridCell(<<"H">>, 1, 1), GridCell(<<"i">>, 1, 4)>>)>>,
       <<"flush">> >>

\* The cached lines the scenario is to yield: row 0 with the text "Hiiii" and
\* the one section of highlight 1 over the bytes 0..5.
ScenarioLines ==
    << [text |-> <<"H", "i", "i", "i", "i">>,
        sections |-> <<[hl |-> 1, start |-> 0, end |-> 5]>>] >>

TwoFlushes ==
    /\ Len(hist.trace) >= 2
    /\ hist.trace[Len(hist.trace)] = <<"flush">>
    /\ hist.trace[Len(hist.trace) - 1] = <<"flush">>

\* C11: right after a render the dirty set is empty and another render of
\* the same grid changes nothing; after two flushes in a row the cached lines
\* of the second render are those the first render published.
C11_RenderIdempotent ==
    (status = "ok" /\ wpc = "swap") =>
        /\ InputGrid.dirty_lines = {}
        /\ LinesRender(InputGrid, {}) = [st |-> "ok", l |-> InputGrid]
        /\ TwoFlushes => InputGrid.cached_sections = buffers[hist.published].cached_sections

\* The second of two flushes in a row has rendered a row with text.
C11_Witness ==
    /\ status = "ok" /\ wpc = "swap" /\ TwoFlushes /\ hist.npub = 1
    /\ InputGrid.rows = 1 /\ InputGrid.cached_sections[1].text # <<>>

(***************************************************************************)
(* Claims on the receive loop (specification SpecRpc).                     *)
(***************************************************************************)
RECURSIVE IsSubseq(_, _)
IsSubseq(a, b) ==
    IF a = <<>> THEN TRUE
    ELSE IF b = <<>> THEN FALSE
    ELSE IF Head(a) = Head(b) THEN IsSubseq(Tail(a), Tail(b))
    ELSE IsSubseq(a, Tail(b))

\* C12: the listener receives the decoded events in the order of the byte
\* stream - within a batch, across the batches of a notification, across the
\* notifications of a read and across reads - none reordered or duplicated:
\* what was delivered is a subsequence of the stream's events, and it is the
\* whole stream when every read held well-formed redraw notifications only.
C12_EventOrder ==
    /\ IsSubseq(rx.delivered, hist.stream)
    /\ hist.classes \subseteq {"plain"} => rx.delivered = hist.stream

\* Two reads of two notifications each were delivered: eight events.
C12_Witness ==
    /\ hist.classes = {"plain"} /\ hist.reads = 2 /\ rx.st = "wait"
    /\ Len(rx.delivered) = 8
    /\ \E i \in 1..7 : rx.delivered[i][1] = "GridResize" /\ rx.delivered[i + 1][1] = "GridResize"
                          /\ rx.delivered[i + 1][2] = rx.delivered[i][2] + 1

\* C13: a batch with an unknown event name is skipped, and the events the
\* notification holds before and after it are delivered.
C13_UnknownSkipped ==
    (hist.classes \subseteq {"plain", "unknown"}) => rx.delivered = hist.stream

\* C14: no read makes the receive loop panic.
C14_NoPanic == rx.st # "panic"

\* C15: a decode error never ends the loop: the loop ends with an error only
\* when read_buf failed.
C15_DecodeErrorRecovery == rx.st = "err" => rx.cause = "transport"

(***************************************************************************)
(* Claims on the decoding of grid_line (specification SpecLine).           *)
(***************************************************************************)
\* The tuples up to the j-th that specify a highlight id.
WithId(tuples, j) == {k \in 1..j : Len(tuples[k]) > 1}

Latest(S) == CHOOSE k \in S : \A m \in S : m <= k

\* C16: a cell tuple without highlight id gets the id of the latest tuple of
\* the same line that has one, a tuple without repeat count gets repeat 1, and
\* nothing is carried from one grid_line to the next: a tuple with no id
\* before it in its line gets the id 0 every line starts with.
C16_CarryForward ==
    /\ Len(rx.delivered) = Len(hist.stream)
    /\ \A i \in 1..Len(rx.delivered) :
          LET cells == rx.delivered[i][2].cells
              tuples == hist.stream[i]
          IN  /\ Len(cells) = Len(tuples)
              /\ \A j \in 1..Len(cells) :
                    /\ cells[j].text = tuples[j][1]
                    /\ cells[j].hl_id = IF WithId(tuples, j) = {} THEN 0
                                        ELSE tuples[Latest(WithId(tuples, j))][2].v
                    /\ cells[j].repeated = IF Len(tuples[j]) > 2 THEN tuples[j][3].v ELSE 1

\* A line in which only the first tuple has an id was decoded, and after it
\* a line in which no tuple has one.
C16_Witness ==
    /\ Len(rx.delivered) = 2
    /\ hist.stream[1] = << <<(<<"a">>), MpInt(1)>>, <<(<<"b">>)>>, <<(<<"b">>)>> >>
    /\ \A j \in 1..3 : rx.delivered[1][2].cells[j].hl_id = 1
    /\ WithId(hist.stream[2], 3) = {}
    /\ \A j \in 1..3 : rx.delivered[2][2].cells[j].hl_id = 0

(***************************************************************************)
(* Claims on the highlight table (specification SpecHl).                   *)
(***************************************************************************)
\* The i-th definition handed to update is the latest one of its id.
LatestDefinition(i) ==
    \A j \in (i + 1)..Len(hist.defined) : hist.defined[j].id # hist.defined[i].id

OnlyBackground(a) ==
    a.foreground = NoColor /\ a.special = NoColor /\ a.background # NoColor /\ ~a.reverse

\* C17: an id defined with only a background resolves to the current default
\* foreground and special and the defined background, also after the default
\* was replaced.
C17_DefaultInheritance ==
    \A i \in 1..Len(hist.defined) :
        (LatestDefinition(i) /\ OnlyBackground(hist.defined[i].rgb_attr)) =>
            /\ hl_groups.st = "ok"
            /\ group_color_set(hist.defined[i].id).st = "ok"
            /\ group_color_set(hist.defined[i].id).attr.foreground = hl_groups.default.foreground
            /\ group_color_set(hist.defined[i].id).attr.special = hl_groups.default.special
            /\ group_color_set(hist.defined[i].id).attr.background
                   = hist.defined[i].rgb_attr.background

\* C18: update succeeds for every id, the table growing as needed, and the
\* stored entry of each defined id is the attribute of its latest definition.
C18_DefineUpsert ==
    \A i \in 1..Len(hist.defined) :
        /\ hl_groups.st = "ok"
        /\ LatestDefinition(i) =>
              /\ hist.defined[i].id < Len(hl_groups.groups)
              /\ hl_groups.groups[hist.defined[i].id + 1] = hist.defined[i].rgb_attr

\* C19: resolving an id at or beyond the length of the table returns the
\* current default and does not fail.
C19_UndefinedLookup ==
    /\ hl_groups.st = "ok" =>
          \A id \in HlIds :
              id >= Len(hl_groups.groups) =>
                  group_color_set(id) = [st |-> "ok", attr |-> hl_groups.default]
    /\ (hist.resolved.st # "none" /\ hist.resolved.id >= Len(hl_groups.groups)) =>
          hist.resolved.st = "ok"

\* Id 5 was resolved on the empty table after the default was replaced.
C19_Witness ==
    /\ hl_groups.st = "ok" /\ hl_groups.groups = <<>>
    /\ hl_groups.default # DefaultRgbAttr
    /\ hist.resolved = [id |-> 5, st |-> "ok", attr |-> hl_groups.default]

(***************************************************************************)
(* Claims on the channel of UI events (specification SpecChanFair).        *)
(***************************************************************************)
\* The events of the send_event calls that returned, in call order.
Enqueued ==
    [i \in 1..(IF wpc = "send" THEN hist.nsent - 1 ELSE hist.nsent) |-> <<"DefineHlAttr", i>>]

\* What was received followed by what the channel holds is what was enqueued.
NothingDropped == hist.received \o chan = Enqueued /\ Len(chan) <= MPSC_CHANNEL_BUFFER_SIZE

\* C20: every event handed to send_event is enqueued exactly once and in call
\* order, also when the channel is full at the call, and while the consumer
\* keeps receiving every call of send_event returns.
C20_NeverDrops == []NothingDropped /\ ((wpc = "send") ~> (wpc = "idle"))

\* A call that met the full channel has returned: its event is the last of
\* the channel, behind 127 others.
C20_Witness ==
    /\ wpc = "idle" /\ hist.nsent = MPSC_CHANNEL_BUFFER_SIZE + 1
    /\ Len(chan) = MPSC_CHANNEL_BUFFER_SIZE
    /\ chan[Len(chan)] = <<"DefineHlAttr", hist.nsent>>
    /\ Len(hist.received) = 1

(***************************************************************************)
(* Claims on resize and update_line (specification SpecGrid).              *)
(***************************************************************************)
\* C21: after resize(rows, cols), whatever the grid was, the dirty set is
\* exactly the rows 0 .. rows-1 of the new grid.
C21_ResizeDirtiesAll ==
    (WriterIdle /\ hist.last.op = "resize") =>
        InputGrid.dirty_lines = 0..(hist.last.rows - 1)

\* The cells of a grid_line with every cell written out `repeated` times.
RECURSIVE Expand(_)
Expand(gcs) ==
    IF gcs = <<>> THEN <<>>
    ELSE [i \in 1..Head(gcs).repeated |-> Head(gcs)] \o Expand(Tail(gcs))

\* The row of gl exists in the grid l and the expanded run ends inside it.
Fits(l, gl) == gl.row < l.rows /\ gl.col_start + Len(Expand(gl.cells)) <= l.cols

\* The step is the handling of a grid_line event.
LineStep == hist'.nops = hist.nops + 1 /\ hist'.last.op = "line"

\* C22: an update_line whose expanded run fits in its row writes the run, in
\* order, from col_start on, leaves every other cell of the grid as it was,
\* and has the row in the dirty set afterwards.
C22_UpdateLineFrame ==
    [][(LineStep /\ Fits(buffers[input_idx], hist'.last.gl)) =>
          LET pre == buffers[input_idx]
              post == buffers'[input_idx]
              gl == hist'.last.gl
              run == Expand(gl.cells)
          IN  /\ status' = "ok"
              /\ post.rows = pre.rows /\ post.cols = pre.cols
              /\ Len(post.cells) = Len(pre.cells)
              /\ gl.row \in post.dirty_lines
              /\ \A r \in 0..(pre.rows - 1), c \in 0..(pre.cols - 1) :
                    IF r = gl.row /\ c >= gl.col_start /\ c < gl.col_start + Len(run)
                    THEN /\ CellAt(post, r, c).chr = run[c - gl.col_start + 1].text
                         /\ CellAt(post, r, c).hl_id = run[c - gl.col_start + 1].hl_id
                    ELSE CellAt(post, r, c) = CellAt(pre, r, c)]_vars

\* Row 1 of a 2x2 grid was filled with a cell repeated twice, and then its
\* column 1 was overwritten: column 0 and row 0 keep what they had.
C22_Witness ==
    /\ WriterIdle /\ hist.last.op = "line"
    /\ hist.last.gl = GridLine(1, 1, <<GridCell(<<"a">>, 1, 1)>>)
    /\ InputGrid.rows = 2 /\ InputGrid.cols = 2
    /\ CellAt(InputGrid, 1, 0).chr = <<"b">> /\ CellAt(InputGrid, 1, 1).chr = <<"a">>
    /\ CellAt(InputGrid, 0, 0) = DefaultLineCell
    /\ 1 \in InputGrid.dirty_lines

\* C23: an update_line whose row is not in the grid, whose col_start is past
\* the row or whose expanded run ends past the row does not abort the event
\* thread.
C23_OutOfRangeLine ==
    (hist.last.op = "line" /\ ~Fits(InputGrid, hist.last.gl)) => status = "ok"

(***************************************************************************)
(* Claim on the modes (specification SpecMode).                            *)
(***************************************************************************)
\* The step is the handling of a mode_change event.
ModeStep == hist'.nops = hist.nops + 1 /\ hist'.last.op = "mode_change"

\* C24: a mode_change whose index is at or past the length of the mode-info
\* array leaves the current mode as it is and fails nothing; an index below
\* the length becomes the current mode.
C24_ModeChangeChecked ==
    [][ModeStep =>
          /\ status' = "ok" /\ modes' = modes
          /\ curr_mode' = IF hist'.last.mode_idx < Len(modes)
                          THEN hist'.last.mode_idx ELSE curr_mode]_vars

\* With two modes and the current mode 1, mode_change(2) was handled.
C24_Witness ==
    /\ hist.last.op = "mode_change" /\ hist.last.mode_idx = 2
    /\ Len(modes) = 2 /\ curr_mode = 1 /\ status = "ok"

(***************************************************************************)
(* Claim on the end of the stream (specification SpecRpcFair).             *)
(***************************************************************************)
\* C25: when a read returns 0 bytes, the stream being closed, the read loop
\* eventually ends and hands the condition to its caller.
C25_ClosedStreamEnds == rx.eof ~> (rx.st # "wait")

(***************************************************************************)
(* Further claims on the triple buffer (specification Spec).               *)
(***************************************************************************)
\* publish() has run to its end and the event thread has written nothing
\* since.
PublishCompleted == status = "ok" /\ wpc \in {"ret", "send"}

\* C26: when publish() has completed, the writer's new input slot holds what
\* the slot it has just published holds, whatever it held before.
C26_RestartFromLatest ==
    PublishCompleted => buffers[input_idx] = buffers[hist.published]

\* The second or a later publish has completed after a swap of the reader:
\* the new input slot is the one the reader gave back, and it holds the
\* rendered row just published.
C26_Witness ==
    /\ PublishCompleted /\ hist.npub >= 2 /\ ~hist.expect
    /\ input_idx # hist.published
    /\ buffers[input_idx].rows = 1
    /\ buffers[input_idx].cached_sections[1].text # <<>>

\* The number of the publication the reader's slot holds (0: the initial
\* grid).
ReaderPublication == hist.pubno[output_idx]

\* C27: the number of the publication in the reader's slot never decreases;
\* the swap of an acquire that saw the dirty bit takes the latest publication
\* there is at the swap, however many the writer made since the load; an
\* acquire that saw no dirty bit leaves the reader's slot and the shared
\* descriptor as they are.
C27_ReaderFreshness ==
    [][/\ hist'.pubno[output_idx'] >= ReaderPublication
       /\ (rpc = "swap" /\ rpc' = "reading") => hist'.pubno[output_idx'] = hist.npub
       /\ (rpc = "idle" /\ rpc' = "reading") =>
             output_idx' = output_idx /\ back_info' = back_info]_vars

\* The reader saw the dirty bit of publication 1, the writer published again,
\* and the swap took publication 2.
C27_Witness ==
    /\ rpc = "reading" /\ hist.rsteps = 2
    /\ hist.loadnpub = 1 /\ ReaderPublication = 2

\* C28: a flush renders the dirty rows, then publishes, then enqueues one
\* Redraw event if that publish returned false and none if it returned true:
\* between flushes as many Redraw events were enqueued as publishes returned
\* false, and the Redraw event of a flush is enqueued after its swap.
C28_FlushWakeRule ==
    /\ (status = "ok" /\ wpc = "swap") =>
          InputGrid.dirty_lines = {} /\ hist.nredraw = hist.nfalse
    /\ (status = "ok" /\ wpc \in AfterSwapPcs) =>
          hist.nfalse = hist.nredraw + (IF PublishResult(wloc.former_back_info) THEN 0 ELSE 1)
    /\ (status = "ok" /\ wpc = "send") =>
          wloc.event = <<"Redraw">> /\ ~PublishResult(wloc.former_back_info)
    /\ WriterIdle => hist.nredraw = hist.nfalse

\* Three flushes are over: the publish of one returned true and sent nothing,
\* the other two sent one Redraw event each.
C28_Witness ==
    /\ WriterIdle /\ hist.npub = 3
    /\ hist.nfalse = 2 /\ hist.nredraw = 2

(***************************************************************************)
(* Claim on the wake-ups (specification SpecWake).                         *)
(***************************************************************************)
\* C29: with a reader that acquires once for each Redraw event it receives,
\* whenever the dirty bit is set and neither thread is inside flush or
\* acquire, a Redraw event is pending in the channel; and whenever the writer
\* is between events and the channel is empty, the reader holds the latest
\* publication.
C29_NoLostWakeup ==
    /\ (Updated /\ WriterIdle /\ ReaderWaiting) =>
          \E i \in 1..Len(chan) : chan[i] = <<"Redraw">>
    /\ (WriterIdle /\ hist.owed = 0 /\ rpc \in {"idle", "reading"} /\ chan = <<>>) =>
          ReaderPublication = hist.npub

\* The second flush published while the reader was between its load and its
\* swap and sent no event; the reader took the second publication and the
\* channel is empty.
C29_Witness ==
    /\ WriterIdle /\ ReaderWaiting /\ chan = <<>>
    /\ hist.npub = 2 /\ hist.nredraw = 1 /\ hist.loadnpub = 1
    /\ ReaderPublication = 2

(***************************************************************************)
(* Claim on the order of Lines::scroll (specification SpecGrid).           *)
(***************************************************************************)
\* The rows the loop of Lines::scroll swaps, in the order of its Stride: dst
\* is the row i the Stride yields, src is (i + rows) as usize.  The loop stops
\* at the first row whose line_at_mut panics.
RECURSIVE ScrollVisits(_, _, _, _, _)
ScrollVisits(l, asc, i, stop, rows) ==
    IF ~(IF asc THEN i < stop ELSE i > stop) THEN <<>>
    ELSE IF ~LineInRange(l, i) \/ ~LineInRange(l, AsUsize(i + rows)) THEN <<>>
    ELSE <<[dst |-> i, src |-> AsUsize(i + rows)]>>
         \o ScrollVisits(l, asc, IF asc THEN i + 1 ELSE i - 1, stop, rows)

\* The visits of scroll_grid(sc) on the grid l.
VisitsOf(l, sc) ==
    IF sc.rows = 0 THEN <<>>
    ELSE IF sc.rows < 0
         THEN ScrollVisits(l, TRUE, sc.top, AsUsize(sc.bottom - sc.rows + 1), sc.rows)
         ELSE ScrollVisits(l, FALSE, sc.bottom, AsUsize(sc.top - sc.rows - 1), sc.rows)

\* C30: a scroll with delta > 0 processes its destination rows in ascending
\* order, each from the row delta below it, and one with delta < 0 in
\* descending order, each from the row |delta| above it; no row is written
\* before it was read as a source.
C30_ScrollOrder ==
    (status = "ok" /\ hist.last.op = "scroll") =>
        LET sc == hist.last.sc
            v == VisitsOf(hist.last.pre, sc)
        IN  /\ \A k \in 1..Len(v) : v[k].src = v[k].dst + sc.rows
            /\ sc.rows > 0 => \A k \in 1..(Len(v) - 1) : v[k].dst < v[k + 1].dst
            /\ sc.rows < 0 => \A k \in 1..(Len(v) - 1) : v[k].dst > v[k + 1].dst
            /\ \A j, k \in 1..Len(v) : j < k => v[j].dst # v[k].src

(***************************************************************************)
(* Claims on what scroll marks and touches (specification SpecGrid).       *)
(***************************************************************************)
\* C31: after a scroll of a region inside the grid, every row in which a cell
\* differs from its value before the scroll is in the dirty set.
C31_ScrollMarksChanges ==
    ScrollReturned =>
        LET pre == hist.last.pre
        IN  \A r \in 0..(pre.rows - 1) :
                (\E c \in 0..(pre.cols - 1) : CellAt(InputGrid, r, c) # CellAt(pre, r, c))
                    => r \in InputGrid.dirty_lines

\* C32: for every scroll request that does not panic, each row the loop reads
\* or writes is a row of the grid, the two rows of a swap differ, and the
\* columns [left, left + line_range) of the swap lie inside the row, so that
\* no swap leaves its rows.
C32_ScrollInsideGrid ==
    (hist.last.op = "scroll" /\ status # "panic") =>
        LET sc == hist.last.sc
            pre == hist.last.pre
            v == VisitsOf(pre, sc)
            line_range == AsUsize(sc.right - sc.left)
        IN  /\ status # "ub"
            /\ \A k \in 1..Len(v) :
                  /\ v[k].dst < pre.rows /\ v[k].src < pre.rows
                  /\ v[k].src # v[k].dst
                  /\ sc.left + line_range <= pre.cols

(***************************************************************************)
(* Claims on the rendered row (specifications SpecRender and SpecGrid).    *)
(***************************************************************************)
\* The text lines::render pushes for the cells of a line: render_in of each.
RECURSIVE LineText(_)
LineText(line) == IF line = <<>> THEN <<>> ELSE Head(line).chr \o LineText(Tail(line))

\* The byte offset in the rendered text at which the text of cell k starts.
CellStart(line, k) == StrLen(LineText(SubSeq(line, 1, k - 1)))

\* A section of sl starts or ends at the byte offset off.
SectionBoundary(sl, off) ==
    \E s \in 1..Len(sl.sections) : sl.sections[s].start = off \/ sl.sections[s].end = off

\* C33: right after the render of a row, each section has the highlight id of
\* every cell whose (non-empty) text lies in the section's byte range, and
\* between two adjacent cells with text there is a section boundary exactly
\* when their highlight ids differ.
C33_SectionsFollowHl ==
    (status = "ok" /\ wpc = "swap" /\ InputGrid.rows = 1) =>
        LET line == LineAt(InputGrid, 0)
            sl == InputGrid.cached_sections[1]
        IN  /\ \A s \in 1..Len(sl.sections), k \in 1..Len(line) :
                  (/\ line[k].chr # <<>>
                   /\ sl.sections[s].start <= CellStart(line, k)
                   /\ CellStart(line, k + 1) <= sl.sections[s].end)
                      => sl.sections[s].hl = line[k].hl_id
            /\ \A k \in 1..(Len(line) - 1) :
                  (line[k].chr # <<>> /\ line[k + 1].chr # <<>>) =>
                      (SectionBoundary(sl, CellStart(line, k + 1))
                          <=> line[k].hl_id # line[k + 1].hl_id)

\* The text the claim expects for the cells of a line: a cell with an empty
\* grapheme contributes one space.
RECURSIVE SpacedText(_)
SpacedText(line) ==
    IF line = <<>> THEN <<>>
    ELSE (IF Head(line).chr = <<>> THEN <<" ">> ELSE Head(line).chr) \o SpacedText(Tail(line))

\* C34: right after the render of a row that a grid_line wrote, the rendered
\* text of the row is the text of its cells in order, with one space for each
\* cell whose grapheme is empty.
C34_EmptyCellsAreSpaces ==
    (status = "ok" /\ wpc = "swap" /\ hist.last.op = "render" /\ InputGrid.rows = 1) =>
        LET line == LineAt(InputGrid, 0)
        IN  (\E k \in 1..Len(line) : line[k].chr # <<>>) =>
                InputGrid.cached_sections[1].text = SpacedText(line)

(***************************************************************************)
(* Claim on a grid_line without a first highlight id (SpecLine).           *)
(***************************************************************************)
\* C35: a grid_line in which a cell tuple has no highlight id and no tuple
\* before it in the line has one does not decode: no event is delivered for
\* it, so every delivered line has an id in or before each of its tuples.
C35_MissingFirstHlId ==
    /\ Len(rx.delivered) = Len(hist.stream)
    /\ rx.st = "wait"
    /\ \A i \in 1..Len(hist.stream) :
          \A j \in 1..Len(hist.stream[i]) : WithId(hist.stream[i], j) # {}

(***************************************************************************)
(* Claims on failing and foreign frames (specification SpecRpc).           *)
(***************************************************************************)
\* C36: when the decoding of a redraw notification returns an error, no event
\* of that notification reaches the listener, the events it holds before the
\* error included: no delivered event has a grid of such a notification.
C36_FailedAppliesNothing ==
    \A i \in 1..Len(rx.delivered) :
        Len(rx.delivered[i]) > 1 => rx.delivered[i][2] \notin hist.failed

\* The second notification of the first read failed after its first event
\* had decoded; the notification before it and the read after it were
\* delivered.
C36_Witness ==
    /\ rx.st = "wait" /\ hist.reads = 2
    /\ hist.failed = 4..6
    /\ Len(rx.delivered) = 4
    /\ rx.delivered[1][2] = 1 /\ rx.delivered[3][2] = 7

\* C37: a request, a response or a notification of another method produces
\* no event and the redraw notifications after it in the same read are still
\* delivered: when every read held well-formed redraw notifications and such
\* frames only, every event of the stream is delivered.
C37_OtherFramesIgnored ==
    (hist.classes \subseteq {"plain", "other"} /\ rx.st = "wait") =>
        rx.delivered = hist.stream

(***************************************************************************)
(* Claim on the indices of render (specification SpecGrid).                *)
(***************************************************************************)
\* C38: between two events, after any resize, clear, update_line, scroll,
\* render and publish, every index of the dirty set is below rows and the
\* cache has rows entries, so that the next render finds every row it visits.
C38_RenderInRange ==
    WriterIdle =>
        /\ \A row \in InputGrid.dirty_lines : row < InputGrid.rows
        /\ Len(InputGrid.cached_sections) = InputGrid.rows
        /\ Renderable(InputGrid) = InputGrid.dirty_lines

(***************************************************************************)
(* Claim on the current mode (specification SpecMode).                     *)
(***************************************************************************)
\* C39: after any mode_info_set and mode_change events, the current mode is
\* an index of the mode-info array whenever the array is not empty.
C39_CurrentModeValid == (status = "ok" /\ modes # <<>>) => curr_mode < Len(modes)

(***************************************************************************)
(* Claim on the lengths of the reads (specification SpecChunk).            *)
(***************************************************************************)
\* C40: however a stream of well-formed frames is split into reads, the
\* listener receives the events of the stream in order: at every moment what
\* was delivered is a prefix of the stream's events and the loop goes on, and
\* once every byte was read every event was delivered.
C40_ChunkingIndependence ==
    /\ rx.st = "wait"
    /\ Len(rx.delivered) <= Len(hist.stream)
    /\ rx.delivered = SubSeq(hist.stream, 1, Len(rx.delivered))
    /\ (hist.reads > 0 /\ hist.unread = <<>>) => rx.delivered = hist.stream

=============================================================================
